---------------------------- MODULE Spec2Model ----------------------------
(***************************************************************************)
(* A model of the JARVIS command pipeline: the capability dispatcher       *)
(* (core/dispatcher.py), the orchestration engine (core/engine.py) and the *)
(* parts of the speech collaborators (audio/tts.py, audio/stt.py) and of   *)
(* the memory store (core/memory.py) the engine drives.                    *)
(*                                                                         *)
(* SpecDispatch explores the registry under arbitrary register /           *)
(* unregister / set_fallback / dispatch calls.  Spec explores the engine:  *)
(* its control thread is a stack of frames (a termination signal pushes a  *)
(* shutdown frame on top of whatever the thread is doing), next to the     *)
(* speech worker thread and the speech-capture threads.                    *)
(* SpecMemory explores the memory store under arbitrary calls of one       *)
(* thread while the clock runs: its tables hold the texts the code writes, *)
(* and values are formatted and parsed character by character.             *)
(* SpecBrain follows one utterance, spoken or typed, through the wake word *)
(* test (audio/stt.py), the classifier (core/brain.py) and the dispatcher  *)
(* to its handler, in the builds with and without rapidfuzz.               *)
(* SpecListen explores the capture thread of the speech input and the      *)
(* recognition threads it starts, one for every captured utterance.        *)
(* FairSpec and LoopFairSpec are Spec with the threads running on.         *)
(***************************************************************************)
EXTENDS Integers, Sequences, FiniteSets, TLC

VARIABLES
  \* ---- Dispatcher (core/dispatcher.py)
  handlers,            \* Dispatcher._handlers: name -> SkillHandler
  category_handlers,   \* Dispatcher._category_handlers: category -> list of names
  fallback,            \* Dispatcher._fallback: a callable or None
  last,                \* the dispatch call just made, if the latest call was one
  regOrder,            \* history: names in order of first registration
  \* ---- Engine (core/engine.py)
  state,               \* Engine._state
  running,             \* Engine._running
  wired,               \* the collaborators the engine holds (the others are None)
  hooks,               \* the termination-signal hooks are installed
  stack,               \* the control thread: its frames, the running one last
  exc,                 \* the latest call into the engine raised to its caller
  initRet,             \* what the latest initialize() returned
  \* ---- Speech output (audio/tts.py)
  speech_queue,        \* TTSEngine._speech_queue
  tts_running,         \* TTSEngine._running
  tts_engine,          \* TTSEngine._engine is not None
  tts_lock,            \* TTSEngine._lock: who holds it
  wpc,                 \* the speech worker thread: where it is
  wcur,                \* the utterance the speech worker has taken
  \* ---- Speech input (audio/stt.py)
  stt_running,         \* STTEngine._running
  microphone,          \* STTEngine._microphone is not None
  command_queue,       \* STTEngine._command_queue
  micAvailable,        \* environment: a capture device can be opened
  \* ---- Memory store (core/memory.py)
  mem_lock,            \* Memory._lock: who holds it
  connection,          \* Memory._connection is not None
  conversations,       \* the rows of the conversations table, oldest first
  memory_table,        \* the rows of the memory table: key -> row
  facts,               \* the rows of the facts table, oldest first
  now,                 \* environment: the clock, in seconds of universal time
  utc_offset,          \* environment: local time minus universal time
  given,               \* history: key -> what the set that wrote its row was given
  mlast,               \* the call into the store just made, if the latest step was one
  nwrites,             \* writing calls made into the store so far
  \* ---- Classifier (core/brain.py) and the path of one utterance to its handler
  fuzzy_available,     \* environment: FUZZY_AVAILABLE, rapidfuzz can be imported
  partial_ratio,       \* environment: how rapidfuzz rates texts that hold no phrase
  heard,               \* the text recognised from the audio, or typed
  via,                 \* how that text came in: by voice or typed
  listening_for_command, \* STTEngine._listening_for_command
  cpc,                 \* how far that text has got on its way to a handler
  classified,          \* the Intent classify_intent returned for it
  matches,             \* history: what _match_patterns returned, key by key
  served,              \* what dispatching that Intent came to
  \* ---- Speech input: the capture thread and its recognition tasks
  captured,            \* the utterances captured, in order, each with its task
  queued,              \* history: the captures whose event is queued, in queue order
  \* ---- history and bounds
  spoken,              \* utterances handed to the synthesizer, in order
  sdTrace,             \* the steps of the latest shutdown run, in order
  stopPending,         \* utterances queued when a command classified to stop
  discarded,           \* utterances removed by clear_queue
  ninvoked,            \* handler callables invoked by the engine's dispatches
  nutt,                \* utterances submitted so far
  ncmd,                \* commands supplied so far (spoken, typed or passed in)
  nwake,               \* wake words heard so far
  nsig,                \* termination signals delivered so far
  ncalls               \* calls made into the engine so far

dvars == <<handlers, category_handlers, fallback, last, regOrder>>
rvars == <<handlers, category_handlers, fallback>>
evars == <<state, running, wired, hooks, initRet>>
tvars == <<speech_queue, tts_running, tts_engine, tts_lock>>
wvars == <<wpc, wcur>>
svars == <<stt_running, microphone, command_queue, micAvailable>>
mvars == <<mem_lock, connection, conversations>>
gvars == <<sdTrace, stopPending, discarded, ninvoked>>
bvars == <<ncmd, nwake, nsig, ncalls>>
kvars == <<memory_table, facts, given, now, utc_offset, mlast, nwrites>>
lvars == <<captured, queued>>
cvars == <<fuzzy_available, partial_ratio, heard, via, listening_for_command, cpc,
          classified, matches, served, lvars>>
engvars == <<evars, stack, exc, tvars, wvars, svars, mvars, spoken, nutt, gvars, bvars>>

vars == <<dvars, engvars, kvars, cvars>>

(***************************************************************************)
(* Values                                                                  *)
(***************************************************************************)
None == "None"
Absent == "absent"          \* a key a dict does not carry

\* IntentCategory
Categories ==
  {"SYSTEM", "APPLICATION", "WEB", "TIME_DATE", "CONVERSATION", "MEMORY",
   "VOLUME", "UNKNOWN"}

\* What a handler callable does when invoked: it returns a HandlerResult (a dict
\* carrying a response, a bare string, or something else) or raises an error
\* whose description may be empty.
ResultKinds == {"dict_response", "str", "other"}
ErrorTexts == {"boom", ""}
Returns(v) == [kind |-> "ret", val |-> v]
Raises(e) == [kind |-> "raise", val |-> e]
Outcomes == {Returns(k) : k \in ResultKinds} \cup {Raises(e) : e \in ErrorTexts}

Range(s) == {s[i] : i \in DOMAIN s}

(***************************************************************************)
(* Dispatcher                                                              *)
(***************************************************************************)
EmptyIndex == [c \in Categories |-> <<>>]

SkillHandler(name, category, actions, handler) ==
  [name |-> name, category |-> category, actions |-> actions, handler |-> handler]

\* register: the entry of the name is replaced, the name is appended to the
\* category's list (the list is created on first use).
RegisterHandlers(hs, name, category, actions, handler) ==
  (name :> SkillHandler(name, category, actions, handler)) @@ hs

RegisterIndex(idx, name, category) ==
  [idx EXCEPT ![category] = Append(@, name)]

\* list.remove(x): drops the first occurrence.
RemoveFirst(s, x) ==
  LET i == CHOOSE k \in DOMAIN s : s[k] = x /\ \A j \in 1..(k-1) : s[j] # x
  IN SubSeq(s, 1, i-1) \o SubSeq(s, i+1, Len(s))

UnregisterHandlers(hs, name) ==
  [n \in (DOMAIN hs) \ {name} |-> hs[n]]

UnregisterIndex(idx, hs, name) ==
  [idx EXCEPT ![hs[name].category] = RemoveFirst(@, name)]

\* The loop of dispatch over the category's names: the first name whose
\* current entry has the action or the wildcard; a name with no entry in
\* _handlers is a KeyError.
RECURSIVE ScanHandlers(_, _, _, _)
ScanHandlers(hs, names, i, action) ==
  IF i > Len(names) THEN [kind |-> "nomatch", name |-> Absent]
  ELSE IF names[i] \notin DOMAIN hs THEN [kind |-> "keyerror", name |-> names[i]]
  ELSE IF action \in hs[names[i]].actions \/ "*" \in hs[names[i]].actions
       THEN [kind |-> "match", name |-> names[i]]
       ELSE ScanHandlers(hs, names, i + 1, action)

DispatchOutcome(raised, success, handler, result, error, invoked) ==
  [raised |-> raised, success |-> success, handler |-> handler,
   result |-> result, error |-> error, invoked |-> invoked]

\* One invocation of a callable: a registered handler (under its name) or the
\* fallback.
Invocation(who, name, fn) == [who |-> who, name |-> name, fn |-> fn]

\* A handler whose error is dropped on the way to "No handler found".
AfterHandlerErrorLost(name, fn, hout) ==
  IF hout.kind = "ret"
  THEN DispatchOutcome(FALSE, TRUE, name, hout.val, Absent,
                       <<Invocation("handler", name, fn)>>)
  ELSE DispatchOutcome(FALSE, FALSE, Absent, Absent, "No handler found",
                       <<Invocation("handler", name, fn)>>)

\* What happens once the handler found by the loop has been called.
AfterHandler(name, fn, hout) ==
  IF hout.kind = "ret"
  THEN DispatchOutcome(FALSE, TRUE, name, hout.val, Absent,
                       <<Invocation("handler", name, fn)>>)
  ELSE DispatchOutcome(FALSE, FALSE, name, Absent, hout.val,
                       <<Invocation("handler", name, fn)>>)

\* What happens when the loop found nothing: the fallback, if any, is tried;
\* its error is logged and the call falls through to "No handler found".
AfterNoMatch(fb, fout) ==
  IF fb # None /\ fout.kind = "ret"
  THEN DispatchOutcome(FALSE, TRUE, "fallback", fout.val, Absent,
                       <<Invocation("fallback", "fallback", fb)>>)
  ELSE DispatchOutcome(FALSE, FALSE, Absent, Absent, "No handler found",
                       IF fb # None THEN <<Invocation("fallback", "fallback", fb)>>
                       ELSE <<>>)

\* dispatch(intent): hout is what the selected handler does if it is called,
\* fout what the fallback does if it is called.
Dispatch(hs, idx, fb, intent, hout, fout) ==
  LET found == ScanHandlers(hs, idx[intent.category], 1, intent.action) IN
  CASE found.kind = "keyerror" ->
         DispatchOutcome(TRUE, FALSE, Absent, Absent, Absent, <<>>)
    [] found.kind = "match" ->
         AfterHandler(found.name, hs[found.name].handler, hout)
    [] OTHER -> AfterNoMatch(fb, fout)

(***************************************************************************)
(* The registry under arbitrary calls                                      *)
(***************************************************************************)
MaxIndexLen == 3            \* registrations kept in the category index

DNames == {"A", "B"}
DCategories == {"SYSTEM", "WEB"}
DActionSets == {{"x"}, {"*"}}
DActions == {"x", "y"}
DCallables == {"f", "g"}
DIntents == [category : DCategories, action : DActions]
HandlerOutcomes == {Returns("hres"), Raises("herr")}
FallbackOutcomes == {Returns("fres"), Raises("ferr")}

IndexLen(idx) == Len(idx["SYSTEM"]) + Len(idx["WEB"])

NoIntent == [category |-> None, action |-> None]
NotCalled == [kind |-> None, val |-> None]
NoOutcome == DispatchOutcome(FALSE, FALSE, Absent, Absent, Absent, <<>>)
NoLast == [intent |-> NoIntent, hout |-> NotCalled, fout |-> NotCalled,
           out |-> NoOutcome]

DInit ==
  /\ handlers = <<>>
  /\ category_handlers = EmptyIndex
  /\ fallback = None
  /\ last = NoLast
  /\ regOrder = <<>>

Register(name, category, actions, handler) ==
  /\ IndexLen(category_handlers) < MaxIndexLen
  /\ handlers' = RegisterHandlers(handlers, name, category, actions, handler)
  /\ category_handlers' = RegisterIndex(category_handlers, name, category)
  /\ regOrder' = IF name \in Range(regOrder) THEN regOrder ELSE Append(regOrder, name)
  /\ last' = NoLast
  /\ UNCHANGED <<fallback, engvars, kvars, cvars>>

Unregister(name) ==
  /\ IF name \in DOMAIN handlers
     THEN /\ category_handlers' = UnregisterIndex(category_handlers, handlers, name)
          /\ handlers' = UnregisterHandlers(handlers, name)
          /\ regOrder' = SelectSeq(regOrder, LAMBDA n : n # name)
     ELSE UNCHANGED <<handlers, category_handlers, regOrder>>
  /\ last' = NoLast
  /\ UNCHANGED <<fallback, engvars, kvars, cvars>>

SetFallback(handler) ==
  /\ fallback' = handler
  /\ last' = NoLast
  /\ UNCHANGED <<handlers, category_handlers, regOrder, engvars, kvars, cvars>>

\* One dispatch call; last keeps its intent, what the callables it invoked did
\* (None for a callable it did not invoke) and the outcome record it returned.
DoDispatch(intent, hout, fout) ==
  LET out == Dispatch(handlers, category_handlers, fallback, intent, hout, fout)
      hcalled == \E k \in DOMAIN out.invoked : out.invoked[k].who = "handler"
      fcalled == \E k \in DOMAIN out.invoked : out.invoked[k].who = "fallback"
  IN /\ last' = [intent |-> intent,
                 hout |-> IF hcalled THEN hout ELSE NotCalled,
                 fout |-> IF fcalled THEN fout ELSE NotCalled,
                 out |-> out]
     /\ UNCHANGED <<handlers, category_handlers, fallback, regOrder, engvars, kvars, cvars>>

DNext ==
  \/ \E n \in DNames, c \in DCategories, a \in DActionSets, f \in DCallables :
       Register(n, c, a, f)
  \/ \E n \in DNames : Unregister(n)
  \/ SetFallback("fb")
  \/ \E i \in DIntents, h \in HandlerOutcomes, f \in FallbackOutcomes :
       DoDispatch(i, h, f)

(***************************************************************************)
(* Memory store: texts                                                     *)
(*                                                                         *)
(* A text is the sequence of its characters, so that containment, pattern  *)
(* matching, formatting and parsing are computed character by character.   *)
(***************************************************************************)
UpperCase ==
  <<"A", "B", "C", "D", "E", "F", "G", "H", "I", "J", "K", "L", "M",
    "N", "O", "P", "Q", "R", "S", "T", "U", "V", "W", "X", "Y", "Z">>
LowerCase ==
  <<"a", "b", "c", "d", "e", "f", "g", "h", "i", "j", "k", "l", "m",
    "n", "o", "p", "q", "r", "s", "t", "u", "v", "w", "x", "y", "z">>
DigitChars == <<"0", "1", "2", "3", "4", "5", "6", "7", "8", "9">>

\* str.lower()
LowerChar(c) ==
  IF \E i \in DOMAIN UpperCase : UpperCase[i] = c
  THEN LowerCase[CHOOSE i \in DOMAIN UpperCase : UpperCase[i] = c]
  ELSE c
Lower(text) == [i \in DOMAIN text |-> LowerChar(text[i])]

\* sub in text
Contains(text, sub) ==
  \E i \in 0..(Len(text) - Len(sub)) : SubSeq(text, i + 1, i + Len(sub)) = sub

\* text LIKE pattern, as SQLite evaluates it: % stands for any run of
\* characters, _ for any one character, letters match whatever their case.
RECURSIVE Like(_, _)
Like(text, pattern) ==
  IF pattern = <<>> THEN text = <<>>
  ELSE IF Head(pattern) = "%"
       THEN Like(text, Tail(pattern)) \/ (text # <<>> /\ Like(Tail(text), pattern))
       ELSE /\ text # <<>>
            /\ Head(pattern) = "_" \/ LowerChar(Head(pattern)) = LowerChar(Head(text))
            /\ Like(Tail(text), Tail(pattern))

\* The decimal digits of a natural number.
RECURSIVE Digits(_)
Digits(n) ==
  IF n < 10 THEN <<DigitChars[n + 1]>>
  ELSE Digits(n \div 10) \o <<DigitChars[(n % 10) + 1]>>

Abs(i) == IF i < 0 THEN -i ELSE i
Zeros(n) == [i \in 1..n |-> "0"]

\* str(i) of an int
IntStr(i) == IF i < 0 THEN <<"-">> \o Digits(-i) ELSE Digits(i)

\* str(x) of the float m * 10^e, m a nonzero integer that is no multiple of
\* ten: positional notation when the decimal exponent is in -4..15, exponent
\* notation otherwise, the shortest digits either way.
FloatStr(m, e) ==
  LET ds == Digits(Abs(m))
      n == Len(ds)
      x == e + n - 1
      xs == Digits(Abs(x))
      body ==
        IF x >= -4 /\ x < 16
        THEN IF e >= 0 THEN ds \o Zeros(e) \o <<".", "0">>
             ELSE IF x >= 0
                  THEN SubSeq(ds, 1, n + e) \o <<".">> \o SubSeq(ds, n + e + 1, n)
                  ELSE <<"0", ".">> \o Zeros(-x - 1) \o ds
        ELSE (IF n = 1 THEN ds ELSE <<ds[1], ".">> \o Tail(ds))
             \o <<"e", IF x < 0 THEN "-" ELSE "+">>
             \o (IF Len(xs) = 1 THEN <<"0">> \o xs ELSE xs)
  IN (IF m < 0 THEN <<"-">> ELSE <<>>) \o body

\* int(text): an optional sign and digits, anything else is a ValueError.
IsIntText(text) ==
  LET body == IF text # <<>> /\ Head(text) \in {"-", "+"} THEN Tail(text) ELSE text
  IN body # <<>> /\ \A i \in DOMAIN body : body[i] \in Range(DigitChars)

DigitValue(c) == (CHOOSE i \in DOMAIN DigitChars : DigitChars[i] = c) - 1

RECURSIVE DigitsValue(_)
DigitsValue(ds) ==
  IF Len(ds) = 1 THEN DigitValue(ds[1])
  ELSE 10 * DigitsValue(SubSeq(ds, 1, Len(ds) - 1)) + DigitValue(ds[Len(ds)])

IntValue(text) ==
  IF Head(text) = "-" THEN -DigitsValue(Tail(text))
  ELSE IF Head(text) = "+" THEN DigitsValue(Tail(text))
  ELSE DigitsValue(text)

(***************************************************************************)
(* Memory store: values and their stored form                              *)
(***************************************************************************)
\* The values callers hand to the store and get back: each carries its type.
\* A float is m * 10^e, a list the sequence of its items, a dict the sequence
\* of its <<key, value>> items.
PyStr(text) == [kind |-> "str", val |-> text]
PyInt(i) == [kind |-> "int", val |-> i]
PyFloat(m, e) == [kind |-> "float", val |-> <<m, e>>]
PyBool(b) == [kind |-> "bool", val |-> b]
PyList(items) == [kind |-> "list", val |-> items]
PyDict(items) == [kind |-> "dict", val |-> items]
PyNone == [kind |-> "NoneType", val |-> None]

\* A nullable column or argument: <<>> is NULL / None, <<x>> the value x.
Null == <<>>
Some(x) == <<x>>

\* str(value), for the values that reach it in set
StrOf(v) ==
  CASE v.kind = "str" -> v.val
    [] v.kind = "int" -> IntStr(v.val)
    [] v.kind = "float" -> FloatStr(v.val[1], v.val[2])
    [] v.kind = "bool" -> IF v.val THEN <<"T", "r", "u", "e">>
                          ELSE <<"F", "a", "l", "s", "e">>
    [] OTHER -> <<"N", "o", "n", "e">>

Quoted(text) == <<"\"">> \o text \o <<"\"">>

\* json.dumps turns every dict key into a string.
JsonKey(k) ==
  CASE k.kind = "bool" -> IF k.val THEN <<"t", "r", "u", "e">>
                          ELSE <<"f", "a", "l", "s", "e">>
    [] k.kind = "NoneType" -> <<"n", "u", "l", "l">>
    [] OTHER -> StrOf(k)

\* json.dumps(value) with the default separators.
RECURSIVE JsonStr(_)
RECURSIVE JsonItems(_, _)
RECURSIVE JsonMembers(_, _)
JsonStr(v) ==
  CASE v.kind = "str" -> Quoted(v.val)
    [] v.kind = "bool" -> IF v.val THEN <<"t", "r", "u", "e">>
                          ELSE <<"f", "a", "l", "s", "e">>
    [] v.kind = "NoneType" -> <<"n", "u", "l", "l">>
    [] v.kind = "list" -> <<"[">> \o JsonItems(v.val, 1) \o <<"]">>
    [] v.kind = "dict" -> <<"{">> \o JsonMembers(v.val, 1) \o <<"}">>
    [] OTHER -> StrOf(v)
JsonItems(items, i) ==
  IF i > Len(items) THEN <<>>
  ELSE (IF i > 1 THEN <<",", " ">> ELSE <<>>)
       \o JsonStr(items[i]) \o JsonItems(items, i + 1)
JsonMembers(items, i) ==
  IF i > Len(items) THEN <<>>
  ELSE (IF i > 1 THEN <<",", " ">> ELSE <<>>)
       \o Quoted(JsonKey(items[i][1])) \o <<":", " ">> \o JsonStr(items[i][2])
       \o JsonMembers(items, i + 1)

\* The values of the exploration.
TextHi == <<"h", "i">>
TextA == <<"a">>
StoreFloats == {PyFloat(15, -1), PyFloat(1, 16)}
StoreLists == {PyList(<<PyInt(1), PyStr(TextA)>>)}
StoreDicts ==
  {PyDict(<< <<PyStr(TextA), PyInt(1)>> >>), PyDict(<< <<PyInt(1), PyStr(TextA)>> >>)}
StoreValues ==
  {PyStr(TextHi), PyInt(7), PyBool(TRUE)} \cup StoreFloats \cup StoreLists
    \cup StoreDicts

\* What json.loads can return for the documents json.dumps writes of the
\* values above: the same lists, and dicts whose keys are strings.
JsonNative ==
  StoreLists \cup
  {PyDict(<< <<PyStr(JsonKey(d.val[1][1])), d.val[1][2]>> >>) : d \in StoreDicts}

\* json.loads(text): the value the document denotes.
JsonLoads(text) ==
  IF \E v \in JsonNative : JsonStr(v) = text
  THEN Returns(CHOOSE v \in JsonNative : JsonStr(v) = text)
  ELSE Raises("JSONDecodeError")

\* float(text): the float the text is the str of.
ParseFloat(text) ==
  IF \E v \in StoreFloats : StrOf(v) = text
  THEN Returns(CHOOSE v \in StoreFloats : StrOf(v) = text)
  ELSE Raises("ValueError")

\* int(text)
ParseInt(text) ==
  IF IsIntText(text) THEN Returns(PyInt(IntValue(text))) ELSE Raises("ValueError")

\* The type tag and the text set stores for a value.
Serialize(v) ==
  CASE v.kind = "dict" -> [type |-> "dict", value |-> JsonStr(v)]
    [] v.kind = "list" -> [type |-> "list", value |-> JsonStr(v)]
    [] v.kind = "bool" -> [type |-> "bool", value |-> StrOf(v)]
    [] v.kind \in {"int", "float"} -> [type |-> "number", value |-> StrOf(v)]
    [] OTHER -> [type |-> "string", value |-> StrOf(v)]

\* What get makes of a stored text under its type tag: a value, or an error.
Deserialize(type, text) ==
  CASE type \in {"dict", "list"} -> JsonLoads(text)
    [] type = "bool" -> Returns(PyBool(Lower(text) = <<"t", "r", "u", "e">>))
    [] type = "number" -> IF "." \in Range(text) THEN ParseFloat(text)
                          ELSE ParseInt(text)
    [] OTHER -> Returns(PyStr(text))

(***************************************************************************)
(* Memory store: the tables                                                *)
(***************************************************************************)
MaxWrites == 2              \* writing calls made into the store
MaxTime == 2                \* seconds the clock runs
RetentionDays == 30         \* cleanup: clear_old_conversations(days=30)

MemoryRow(key, value, type, expires_at) ==
  [key |-> key, value |-> value, type |-> type, expires_at |-> expires_at]
ConversationRow(role, content, intent, timestamp) ==
  [role |-> role, content |-> content, intent |-> intent, timestamp |-> timestamp]
FactRow(category, fact, confidence, created_at) ==
  [category |-> category, fact |-> fact, confidence |-> confidence,
   created_at |-> created_at]

\* datetime.now() is local time; CURRENT_TIMESTAMP is universal time.
LocalNow == now + utc_offset
UtcNow == now

\* The memory table in rowid order: its key is unique.
HasRow(table, key) == \E i \in DOMAIN table : table[i].key = key
RowOf(table, key) == table[CHOOSE i \in DOMAIN table : table[i].key = key]
DeleteRow(table, key) == SelectSeq(table, LAMBDA r : r.key # key)
\* INSERT OR REPLACE: the row of the key is dropped, the new one gets the
\* next rowid.
ReplaceRow(table, row) == Append(DeleteRow(table, row.key), row)

\* if ttl_seconds: expires_at = datetime.now() + timedelta(seconds=ttl_seconds)
ExpiresAt(ttl, localnow) ==
  IF ttl # Null /\ ttl[1] # 0 THEN Some(localnow + ttl[1]) ELSE Null

SetTable(table, key, value, ttl, localnow) ==
  ReplaceRow(table, MemoryRow(key, Serialize(value).value, Serialize(value).type,
                              ExpiresAt(ttl, localnow)))

\* datetime.now() > expires
PastExpiry(row, localnow) ==
  row.expires_at # Null /\ localnow > row.expires_at[1]

\* cursor = self._connection.cursor(): an AttributeError on a store that is
\* not open.
Cursor(conn) == IF conn THEN Returns(PyNone) ELSE Raises("AttributeError")

\* An operation whose errors reach the caller.
Uncaught(outcome, default) == outcome

\* try: ... except Exception: the error is logged and the operation returns
\* its default.
Caught(outcome, default) ==
  IF outcome.kind = "raise" THEN Returns(default) ELSE outcome

\* get holds the lock when it calls delete, which waits for the same lock:
\* the call never returns.
Hangs == [kind |-> "hang", val |-> PyNone]

\* The body of get(key, default) inside its try.
GetBody(table, conn, key, default, localnow) ==
  IF Cursor(conn).kind = "raise" THEN Cursor(conn)
  ELSE IF ~HasRow(table, key) THEN Returns(default)
  ELSE IF PastExpiry(RowOf(table, key), localnow) THEN Hangs
  ELSE Deserialize(RowOf(table, key).type, RowOf(table, key).value)

\* get(key, default)
GetResult(table, conn, key, default, localnow) ==
  Caught(GetBody(table, conn, key, default, localnow), default)

\* exists(key): self.get(key) is not None
ExistsResult(table, conn, key, localnow) ==
  LET r == GetResult(table, conn, key, PyNone, localnow)
  IN IF r.kind = "ret" THEN Returns(PyBool(r.val # PyNone)) ELSE r

\* What set, delete, add_conversation, learn_fact and the two steps of cleanup
\* return: nothing, their error being caught.
WriteResult(conn) == Caught(Cursor(conn), PyNone)

\* DELETE FROM memory WHERE expires_at IS NOT NULL AND expires_at < CURRENT_TIMESTAMP
CleanupExpired(table, utcnow) ==
  SelectSeq(table, LAMBDA r : ~(r.expires_at # Null /\ r.expires_at[1] < utcnow))

\* DELETE FROM conversations WHERE timestamp < cutoff
ClearOldConversations(rows, days, localnow) ==
  SelectSeq(rows, LAMBDA r : ~(r.timestamp < localnow - days * 24 * 60 * 60))

\* ORDER BY: the rows by the given order, rows the order does not tell apart
\* staying in table order.
StableSort(rows, Before(_, _)) ==
  LET Rank(i) ==
        1 + Cardinality({j \in DOMAIN rows :
                           \/ Before(rows[j], rows[i])
                           \/ ~Before(rows[i], rows[j]) /\ j < i})
  IN [p \in DOMAIN rows |-> rows[CHOOSE i \in DOMAIN rows : Rank(i) = p]]

Reverse(s) == [i \in DOMAIN s |-> s[Len(s) + 1 - i]]
Min(a, b) == IF a < b THEN a ELSE b

\* get_recent_conversations(limit): ORDER BY timestamp DESC LIMIT limit, then
\* reversed.
NewerConversation(a, b) == a.timestamp > b.timestamp
RecentConversations(rows, limit) ==
  LET sorted == StableSort(rows, NewerConversation)
  IN Reverse(SubSeq(sorted, 1, Min(limit, Len(sorted))))
RecentResult(rows, conn, limit) ==
  Caught(IF Cursor(conn).kind = "raise" THEN Cursor(conn)
         ELSE Returns(PyList(RecentConversations(rows, limit))),
         PyList(<<>>))

\* get_facts(category): ORDER BY confidence DESC, created_at DESC
FactBefore(a, b) ==
  \/ a.confidence > b.confidence
  \/ a.confidence = b.confidence /\ a.created_at > b.created_at
FactsInOrder(rows, category) ==
  StableSort(IF category # Null
             THEN SelectSeq(rows, LAMBDA r : r.category = category[1])
             ELSE rows,
             FactBefore)
FactsResult(rows, conn, category) ==
  Caught(IF Cursor(conn).kind = "raise" THEN Cursor(conn)
         ELSE Returns(PyList(FactsInOrder(rows, category))),
         PyList(<<>>))

\* recall(query): the first fact, in get_facts order, whose text or category
\* contains the lower-cased query; failing that the first row of the memory
\* table whose key or value is LIKE %query%, as "key: value".
FactMatches(row, query) ==
  \/ Contains(Lower(row.fact), Lower(query))
  \/ Contains(Lower(row.category), Lower(query))
RowMatches(row, query) ==
  \/ Like(row.key, <<"%">> \o query \o <<"%">>)
  \/ Like(row.value, <<"%">> \o query \o <<"%">>)
First(rows, Test(_)) ==
  rows[CHOOSE i \in DOMAIN rows : Test(rows[i]) /\ \A j \in 1..(i - 1) : ~Test(rows[j])]
SearchMemory(table, conn, query) ==
  LET RowHit(r) == RowMatches(r, query)
  IN Caught(IF Cursor(conn).kind = "raise" THEN Cursor(conn)
            ELSE IF \E i \in DOMAIN table : RowHit(table[i])
                 THEN Returns(PyStr(First(table, RowHit).key \o <<":", " ">>
                                    \o First(table, RowHit).value))
                 ELSE Returns(PyNone),
            PyNone)
RecallResult(factrows, table, conn, query) ==
  LET got == FactsResult(factrows, conn, Null)
      ordered == IF got.kind = "ret" THEN got.val.val ELSE <<>>
      FactHit(r) == FactMatches(r, query)
  IN IF got.kind # "ret" THEN got
     ELSE IF \E i \in DOMAIN ordered : FactHit(ordered[i])
          THEN Returns(PyStr(First(ordered, FactHit).fact))
          ELSE SearchMemory(table, conn, query)

(***************************************************************************)
(* Memory store: the operations                                            *)
(***************************************************************************)
MKeys == {<<"a">>}
MDefaults == {PyNone, PyStr(<<"d">>)}
MTtls == {Null, Some(0), Some(1)}
MRoles == {"user"}
MContents == {"c1", "c2"}
MLimits == {1, 2}
MCategories == {<<"p", "e", "t">>}
MFacts == {<<"T", "o", "m">>, <<"T", "e", "a">>}
MConfidences == {50, 100}   \* in hundredths
MQueries == {<<"a">>, <<"t", "E">>, <<"_">>}
UtcOffsets == {-1, 0, 1}

\* Everything outside the store.
nonstore ==
  <<dvars, evars, stack, exc, tvars, wvars, svars, spoken, nutt, gvars, bvars, cvars>>

\* A call and how it ended: it returned a value, raised, or never ended.
StoreCall(op, args, outcome) ==
  [op |-> op, args |-> args,
   ret |-> IF outcome.kind = "ret" THEN outcome.val ELSE PyNone,
   done |-> outcome.kind = "ret",
   raised |-> outcome.kind = "raise"]
NoCall == StoreCall(None, <<>>, Returns(PyNone))

\* A fresh Memory object on a fresh database file.
StoreStart ==
  /\ memory_table = <<>>
  /\ facts = <<>>
  /\ given = <<>>
  /\ now = 0
  /\ mlast = NoCall
  /\ nwrites = 0

KeysOf(table) == {table[i].key : i \in DOMAIN table}
Given(value, ttl, at) == [value |-> value, ttl |-> ttl, at |-> at]
GivenFor(table, g) == [k \in KeysOf(table) \cap DOMAIN g |-> g[k]]

\* initialize(): the connection is opened, or the attempt fails and the
\* object keeps what it had.
MemInitialize(ok) ==
  /\ connection' = IF ok THEN TRUE ELSE connection
  /\ mlast' = StoreCall("initialize", <<>>, Returns(PyBool(ok)))
  /\ UNCHANGED <<nonstore, mem_lock, conversations, memory_table, facts, given, now,
                 utc_offset, nwrites>>

\* set(key, value, ttl_seconds)
MemSet(key, value, ttl) ==
  /\ mem_lock = "free"
  /\ nwrites < MaxWrites
  /\ nwrites' = nwrites + 1
  /\ memory_table' = IF connection
                      THEN SetTable(memory_table, key, value, ttl, LocalNow)
                      ELSE memory_table
  /\ given' = IF connection
              THEN (key :> Given(value, ttl, LocalNow)) @@ given
              ELSE given
  /\ mlast' = StoreCall("set", <<key, value, ttl>>, WriteResult(connection))
  /\ UNCHANGED <<nonstore, mvars, facts, now, utc_offset>>

\* get(key, default)
MemGet(key, default) ==
  LET r == GetResult(memory_table, connection, key, default, LocalNow) IN
  /\ mem_lock = "free"
  /\ mem_lock' = IF r.kind = "hang" THEN "main" ELSE mem_lock
  /\ mlast' = StoreCall("get", <<key, default>>, r)
  /\ UNCHANGED <<nonstore, connection, conversations, memory_table, facts, given,
                 now, utc_offset, nwrites>>

\* delete(key)
MemDelete(key) ==
  /\ mem_lock = "free"
  /\ nwrites < MaxWrites
  /\ nwrites' = nwrites + 1
  /\ memory_table' = IF connection THEN DeleteRow(memory_table, key)
                      ELSE memory_table
  /\ given' = GivenFor(memory_table', given)
  /\ mlast' = StoreCall("delete", <<key>>, WriteResult(connection))
  /\ UNCHANGED <<nonstore, mvars, facts, now, utc_offset>>

\* exists(key): get(key) is not None
MemExists(key) ==
  LET r == ExistsResult(memory_table, connection, key, LocalNow) IN
  /\ mem_lock = "free"
  /\ mem_lock' = IF r.kind = "hang" THEN "main" ELSE mem_lock
  /\ mlast' = StoreCall("exists", <<key>>, r)
  /\ UNCHANGED <<nonstore, connection, conversations, memory_table, facts, given,
                 now, utc_offset, nwrites>>

\* add_conversation(role, content)
AddConversation(role, content) ==
  /\ mem_lock = "free"
  /\ nwrites < MaxWrites
  /\ nwrites' = nwrites + 1
  /\ conversations' =
       IF connection
       THEN Append(conversations, ConversationRow(role, content, None, UtcNow))
       ELSE conversations
  /\ mlast' = StoreCall("add_conversation", <<role, content>>, WriteResult(connection))
  /\ UNCHANGED <<nonstore, mem_lock, connection, memory_table, facts, given, now,
                 utc_offset>>

\* get_recent_conversations(limit)
GetRecentConversations(limit) ==
  /\ mem_lock = "free"
  /\ mlast' = StoreCall("get_recent_conversations", <<limit>>,
                        RecentResult(conversations, connection, limit))
  /\ UNCHANGED <<nonstore, mvars, memory_table, facts, given, now, utc_offset,
                 nwrites>>

\* learn_fact(category, fact, confidence)
LearnFact(category, fact, confidence) ==
  /\ mem_lock = "free"
  /\ nwrites < MaxWrites
  /\ nwrites' = nwrites + 1
  /\ facts' = IF connection
              THEN Append(facts, FactRow(category, fact, confidence, UtcNow))
              ELSE facts
  /\ mlast' = StoreCall("learn_fact", <<category, fact, confidence>>, WriteResult(connection))
  /\ UNCHANGED <<nonstore, mvars, memory_table, given, now, utc_offset>>

\* get_facts(category)
GetFacts(category) ==
  /\ mem_lock = "free"
  /\ mlast' = StoreCall("get_facts", <<category>>,
                        FactsResult(facts, connection, category))
  /\ UNCHANGED <<nonstore, mvars, memory_table, facts, given, now, utc_offset,
                 nwrites>>

\* recall(query)
Recall(query) ==
  /\ mem_lock = "free"
  /\ mlast' = StoreCall("recall", <<query>>,
                        RecallResult(facts, memory_table, connection, query))
  /\ UNCHANGED <<nonstore, mvars, memory_table, facts, given, now, utc_offset,
                 nwrites>>

\* cleanup(): _cleanup_expired(), then clear_old_conversations(days=30)
CleanedTable == IF connection THEN CleanupExpired(memory_table, UtcNow)
                ELSE memory_table
CleanedConversations ==
  IF connection THEN ClearOldConversations(conversations, RetentionDays, LocalNow)
  ELSE conversations

MemCleanup ==
  /\ mem_lock = "free"
  /\ memory_table' = CleanedTable
  /\ given' = GivenFor(memory_table', given)
  /\ conversations' = CleanedConversations
  /\ mlast' = StoreCall("cleanup", <<>>, WriteResult(connection))
  /\ UNCHANGED <<nonstore, mem_lock, connection, facts, now, utc_offset, nwrites>>

\* shutdown(): cleanup(), then the connection is closed and forgotten.
MemShutdown ==
  /\ mem_lock = "free"
  /\ memory_table' = CleanedTable
  /\ given' = GivenFor(memory_table', given)
  /\ conversations' = CleanedConversations
  /\ connection' = FALSE
  /\ mlast' = StoreCall("shutdown", <<>>, WriteResult(connection))
  /\ UNCHANGED <<nonstore, mem_lock, facts, now, utc_offset, nwrites>>

\* A second passes.
Tick ==
  /\ now < MaxTime
  /\ now' = now + 1
  /\ mlast' = NoCall
  /\ UNCHANGED <<nonstore, mvars, memory_table, facts, given, utc_offset, nwrites>>

MemNext ==
  \/ (\E ok \in BOOLEAN : MemInitialize(ok))
  \/ (\E k \in MKeys, v \in StoreValues, t \in MTtls : MemSet(k, v, t))
  \/ (\E k \in MKeys, d \in MDefaults : MemGet(k, d))
  \/ (\E k \in MKeys : MemDelete(k))
  \/ (\E k \in MKeys : MemExists(k))
  \/ (\E r \in MRoles, c \in MContents : AddConversation(r, c))
  \/ (\E n \in MLimits : GetRecentConversations(n))
  \/ (\E c \in MCategories, f \in MFacts, x \in MConfidences : LearnFact(c, f, x))
  \/ (\E c \in {Null} \cup {Some(x) : x \in MCategories} : GetFacts(c))
  \/ (\E q \in MQueries : Recall(q))
  \/ MemCleanup
  \/ MemShutdown
  \/ Tick


(***************************************************************************)
(* Classifier: texts                                                       *)
(***************************************************************************)
\* The characters of a string, in order.
Chars(s) == [i \in 1..Len(s) |-> SubSeq(s, i, i)]

Space == " "

\* str.strip(): the blanks at both ends are dropped.
RECURSIVE LStrip(_)
LStrip(text) ==
  IF text # <<>> /\ Head(text) = Space THEN LStrip(Tail(text)) ELSE text

RECURSIVE RStrip(_)
RStrip(text) ==
  IF text # <<>> /\ text[Len(text)] = Space
  THEN RStrip(SubSeq(text, 1, Len(text) - 1))
  ELSE text

Strip(text) == RStrip(LStrip(text))

\* The length of the run of characters other than blanks text starts with.
RECURSIVE WordLen(_)
WordLen(text) ==
  IF text = <<>> \/ Head(text) = Space THEN 0 ELSE 1 + WordLen(Tail(text))

\* str.split(): the words between runs of blanks.
RECURSIVE Split(_)
Split(text) ==
  IF text = <<>> THEN <<>>
  ELSE IF Head(text) = Space THEN Split(Tail(text))
  ELSE LET n == WordLen(text)
       IN <<SubSeq(text, 1, n)>> \o Split(SubSeq(text, n + 1, Len(text)))

\* str.startswith(prefix), str.endswith(suffix)
StartsWith(text, prefix) ==
  Len(prefix) <= Len(text) /\ SubSeq(text, 1, Len(prefix)) = prefix
EndsWith(text, suffix) ==
  /\ Len(suffix) <= Len(text)
  /\ SubSeq(text, Len(text) - Len(suffix) + 1, Len(text)) = suffix

\* str.find(sub): the offset of the first occurrence (text holds one).
Find(text, sub) ==
  CHOOSE i \in 0..(Len(text) - Len(sub)) :
    /\ SubSeq(text, i + 1, i + Len(sub)) = sub
    /\ \A j \in 0..(i - 1) : SubSeq(text, j + 1, j + Len(sub)) # sub

\* text.split(sub, 1)[1]: what follows the first occurrence of sub.
AfterFirst(text, sub) == SubSeq(text, Find(text, sub) + Len(sub) + 1, Len(text))

\* re.sub(r'\s+(please|now|for me)$', '', text)
PoliteSuffixes == <<"please", "now", "for me">>
DropPoliteSuffix(text) ==
  LET hits == {i \in DOMAIN PoliteSuffixes :
                 EndsWith(text, <<Space>> \o Chars(PoliteSuffixes[i]))}
  IN IF hits = {} THEN text
     ELSE LET i == CHOOSE k \in hits : TRUE
          IN RStrip(SubSeq(text, 1, Len(text) - Len(PoliteSuffixes[i])))

\* re.sub(r'^(on youtube|video)\s*', '', text)
VideoPrefixes == <<"on youtube", "video">>
DropVideoPrefix(text) ==
  LET hits == {i \in DOMAIN VideoPrefixes : StartsWith(text, Chars(VideoPrefixes[i]))}
  IN IF hits = {} THEN text
     ELSE LET i == CHOOSE k \in hits : \A j \in hits : k <= j
          IN LStrip(SubSeq(text, Len(VideoPrefixes[i]) + 1, Len(text)))

\* re.findall(r'\d+', text)[0]: the first run of digits (text holds a digit).
IsDigit(c) == c \in Range(DigitChars)
RECURSIVE DigitRun(_)
DigitRun(text) ==
  IF text = <<>> \/ ~IsDigit(Head(text)) THEN <<>>
  ELSE <<Head(text)>> \o DigitRun(Tail(text))
RECURSIVE FirstNumber(_)
FirstNumber(text) ==
  IF IsDigit(Head(text)) THEN DigitRun(text) ELSE FirstNumber(Tail(text))
HasDigit(text) == \E i \in DOMAIN text : IsDigit(text[i])

(***************************************************************************)
(* Classifier: core/brain.py                                               *)
(*                                                                         *)
(* Scores and confidences are kept in tenths of a point, so that the       *)
(* product of a rating of rapidfuzz by 0.7 stays a whole number.           *)
(***************************************************************************)
Points(n) == 10 * n

\* Brain(confidence_threshold=65)
confidence_threshold == 65

\* What partial_ratio gives for a text and the phrases of a key when none of
\* them lies within the other (when one does, it gives 100).
FuzzyRatios == {0, 80, 95}

\* _build_intent_patterns: the keys in the order of the dict, each with its
\* trigger phrases in the order of its list.
IntentPatterns ==
  << [key |-> "system.shutdown", patterns |-> <<
         "shutdown", "shut down", "power off", "turn off computer",
         "shutdown computer", "shut down the computer">>],
     [key |-> "system.restart", patterns |-> <<
         "restart", "reboot", "restart computer", "reboot computer",
         "restart the computer">>],
     [key |-> "system.lock", patterns |-> <<
         "lock", "lock computer", "lock screen", "lock the computer">>],
     [key |-> "system.screenshot", patterns |-> <<
         "screenshot", "take screenshot", "capture screen",
         "screen capture", "take a screenshot">>],
     [key |-> "volume.up", patterns |-> <<
         "volume up", "increase volume", "louder", "turn up volume",
         "raise volume", "turn it up">>],
     [key |-> "volume.down", patterns |-> <<
         "volume down", "decrease volume", "quieter", "turn down volume",
         "lower volume", "turn it down">>],
     [key |-> "volume.mute", patterns |-> <<
         "mute", "mute volume", "silence", "mute audio", "mute sound">>],
     [key |-> "volume.unmute", patterns |-> <<
         "unmute", "unmute volume", "unmute audio">>],
     [key |-> "volume.set", patterns |-> <<
         "set volume to", "volume to", "set volume">>],
     [key |-> "app.open", patterns |-> <<
         "open", "launch", "start", "run", "execute", "fire up">>],
     [key |-> "app.close", patterns |-> <<
         "close", "quit", "exit", "kill", "terminate", "end">>],
     [key |-> "web.search", patterns |-> <<
         "search", "google", "look up", "find", "search for",
         "search the web for", "google search">>],
     [key |-> "web.open", patterns |-> <<
         "open website", "go to", "visit", "open site", "browse to",
         "navigate to">>],
     [key |-> "web.youtube", patterns |-> <<
         "play on youtube", "youtube", "search youtube", "play video",
         "watch">>],
     [key |-> "time_date.time", patterns |-> <<
         "what time", "current time", "tell me the time", "what's the time",
         "time please", "what is the time", "time", "the time",
         "whats the time", "tell time", "show time", "give me the time",
         "what time is it">>],
     [key |-> "time_date.date", patterns |-> <<
         "what date", "current date", "today's date", "what's the date",
         "what day is it", "what is today", "what's today's date",
         "whats today", "today date", "date today", "date", "the date",
         "tell me the date", "what day", "today">>],
     [key |-> "memory.remember", patterns |-> <<
         "remember", "remember that", "store", "save", "note that",
         "keep in mind">>],
     [key |-> "memory.recall", patterns |-> <<
         "recall", "what do you remember", "what did i tell you",
         "do you remember", "what do you know about">>],
     [key |-> "memory.forget", patterns |-> <<
         "forget", "forget that", "delete", "remove from memory">>],
     [key |-> "conversation.greeting", patterns |-> <<
         "hello", "hi", "hey", "good morning", "good afternoon",
         "good evening", "howdy", "what's up">>],
     [key |-> "conversation.farewell", patterns |-> <<
         "goodbye", "bye", "see you", "farewell", "good night",
         "i'm leaving", "that's all">>],
     [key |-> "conversation.thanks", patterns |-> <<
         "thank you", "thanks", "appreciate it", "cheers">>],
     [key |-> "conversation.how_are_you", patterns |-> <<
         "how are you", "how do you feel", "how's it going", "what's up",
         "how are things">>],
     [key |-> "conversation.who_are_you", patterns |-> <<
         "who are you", "what are you", "what's your name",
         "tell me about yourself", "introduce yourself">>],
     [key |-> "conversation.capabilities", patterns |-> <<
         "what can you do", "help", "what are your capabilities",
         "what do you do", "show me what you can do">>],
     [key |-> "conversation.joke", patterns |-> <<
         "tell me a joke", "joke", "make me laugh", "say something funny">>],
     [key |-> "conversation.stop", patterns |-> <<
         "stop", "cancel", "nevermind", "never mind", "abort", "shut up",
         "be quiet", "stop talking">>] >>

\* The catalog with every phrase as the text it is.
Catalog ==
  [k \in DOMAIN IntentPatterns |->
     [key |-> IntentPatterns[k].key,
      patterns |-> [j \in DOMAIN IntentPatterns[k].patterns |->
                      Chars(IntentPatterns[k].patterns[j])]]]

\* What _match_patterns returns, with the rule that gave the score.
Match(score, rule) == [score |-> score, rule |-> rule]
NoMatch == Match(0, "none")

\* is_short_input holding for a single word only.
OneWordOnly(text) == Len(Split(text)) <= 1 /\ Len(text) <= 10

\* is_short_input = len(text_words) <= 2 and len(text) <= 10
is_short_input(text) == Len(Split(text)) <= 2 /\ Len(text) <= 10

\* The body of the first loop of _match_patterns for one pattern: the whole
\* phrase, then a word of the text among the words of the phrase, then all the
\* words of a phrase of several words among the words of the text.
PatternMatch(text, pattern) ==
  LET pattern_lower == Lower(pattern)
      pattern_words == Range(Split(pattern_lower))
      text_words == Range(Split(text))
      short == is_short_input(text)
  IN IF pattern_lower = text THEN Match(Points(100), "exact")
     ELSE IF \E w \in text_words : w \in pattern_words /\ (short => w = text)
          THEN Match(IF short THEN Points(95) ELSE Points(90), "word")
     ELSE IF Len(Split(pattern_lower)) > 1 /\ pattern_words \subseteq text_words
          THEN Match(Points(95), "all_words")
     ELSE NoMatch

\* The first loop: it returns at the first pattern that gives a score.
RECURSIVE FirstMatch(_, _, _)
FirstMatch(text, patterns, i) ==
  IF i > Len(patterns) THEN NoMatch
  ELSE LET m == PatternMatch(text, patterns[i])
       IN IF m.rule # "none" THEN m ELSE FirstMatch(text, patterns, i + 1)

\* process.extractOne(text, patterns, scorer=fuzz.partial_ratio), reduced:
\* min(result[1] * 0.7, 70.0)
FuzzyMatch(text, patterns, ratio) ==
  LET within == \E j \in DOMAIN patterns :
                  Contains(text, patterns[j]) \/ Contains(patterns[j], text)
      rating == IF within THEN 100 ELSE ratio
  IN Match(Min(rating * 7, Points(70)), "fuzzy")

\* Basic substring matching
SubstringMatch(text, patterns) ==
  IF \E j \in DOMAIN patterns : Contains(text, patterns[j])
  THEN Match(Points(65), "substring")
  ELSE NoMatch

\* _match_patterns(text, patterns)
match_patterns(given_text, patterns, fuzzy, ratio) ==
  LET text == Strip(Lower(given_text))
      first == FirstMatch(text, patterns, 1)
  IN IF first.rule # "none" THEN first
     ELSE IF is_short_input(text) THEN NoMatch
     ELSE IF fuzzy THEN FuzzyMatch(text, patterns, ratio)
     ELSE SubstringMatch(text, patterns)

\* _get_category without the entry of "time_date".
get_category_short(category_str) ==
  CASE category_str = "system" -> "SYSTEM"
    [] category_str = "app" -> "APPLICATION"
    [] category_str = "web" -> "WEB"
    [] category_str \in {"time", "date"} -> "TIME_DATE"
    [] category_str = "conversation" -> "CONVERSATION"
    [] category_str = "memory" -> "MEMORY"
    [] category_str = "volume" -> "VOLUME"
    [] OTHER -> "UNKNOWN"

\* _get_category(category_str)
get_category(category_str) ==
  CASE category_str = "system" -> "SYSTEM"
    [] category_str = "app" -> "APPLICATION"
    [] category_str = "web" -> "WEB"
    [] category_str \in {"time", "date", "time_date"} -> "TIME_DATE"
    [] category_str = "conversation" -> "CONVERSATION"
    [] category_str = "memory" -> "MEMORY"
    [] category_str = "volume" -> "VOLUME"
    [] OTHER -> "UNKNOWN"

\* The string of a text.
RECURSIVE Str(_)
Str(text) == IF text = <<>> THEN "" ELSE Head(text) \o Str(Tail(text))

\* best_match.split(".", 1)
SplitKey(key) ==
  LET text == Chars(key)
      dot == Find(text, <<".">>)
  IN <<Str(SubSeq(text, 1, dot)), Str(SubSeq(text, dot + 2, Len(text)))>>

\* The loops of _extract_entities over the triggers of a key: the first
\* trigger the text holds decides, and what follows its first occurrence is
\* the entity.
NoEntities == <<>>
TriggersIn(text, triggers) ==
  {i \in DOMAIN triggers : Contains(text, Chars(triggers[i]))}
FirstTrigger(text, triggers) ==
  Chars(triggers[CHOOSE i \in TriggersIn(text, triggers) :
                   \A j \in TriggersIn(text, triggers) : i <= j])
AfterTrigger(text, triggers) ==
  Strip(AfterFirst(text, FirstTrigger(text, triggers)))

OpenTriggers == <<"open", "launch", "start", "run">>
CloseTriggers == <<"close", "quit", "exit", "kill">>
SearchTriggers == <<"search for", "search", "google", "look up", "find">>
YoutubeTriggers == <<"play", "youtube", "watch">>
RememberTriggers == <<"remember that", "remember", "note that">>
RecallTriggers == <<"about", "remember">>

\* The loop over the triggers.
TriggerEntity(text, triggers, name) ==
  IF TriggersIn(text, triggers) = {} THEN NoEntities
  ELSE name :> PyStr(AfterTrigger(text, triggers))

\* _extract_entities(text, intent_key)
extract_entities(text, intent_key) ==
  CASE intent_key = "app.open" ->
         IF TriggersIn(text, OpenTriggers) = {} THEN NoEntities
         ELSE "app_name" :> PyStr(DropPoliteSuffix(AfterTrigger(text, OpenTriggers)))
    [] intent_key = "app.close" -> TriggerEntity(text, CloseTriggers, "app_name")
    [] intent_key = "web.search" -> TriggerEntity(text, SearchTriggers, "query")
    [] intent_key = "web.youtube" ->
         IF TriggersIn(text, YoutubeTriggers) = {} THEN NoEntities
         ELSE "query" :> PyStr(DropVideoPrefix(AfterTrigger(text, YoutubeTriggers)))
    [] intent_key = "volume.set" ->
         IF HasDigit(text) THEN "level" :> PyInt(DigitsValue(FirstNumber(text)))
         ELSE NoEntities
    [] intent_key = "memory.remember" -> TriggerEntity(text, RememberTriggers, "content")
    [] intent_key = "memory.recall" -> TriggerEntity(text, RecallTriggers, "query")
    [] OTHER -> NoEntities

\* _check_app_open(text): the first desktop application the text names, when
\* it names no web application and holds a word for opening.
WebApps ==
  <<"youtube", "netflix", "spotify web", "facebook", "instagram", "twitter",
    "whatsapp", "telegram", "gmail", "google drive", "github", "linkedin",
    "reddit", "amazon", "flipkart", "chatgpt", "google", "wikipedia",
    "stackoverflow">>
Apps ==
  <<"chrome", "firefox", "edge", "browser", "notepad", "calculator", "word",
    "excel", "powerpoint", "spotify", "discord", "vscode", "code",
    "file explorer", "explorer", "command prompt", "cmd", "powershell",
    "terminal", "task manager", "settings", "control panel", "paint", "photos",
    "camera", "teams", "zoom", "vlc", "media player", "snipping tool">>
check_app_open(text) ==
  IF \/ TriggersIn(text, WebApps) # {}
     \/ TriggersIn(text, Apps) = {}
     \/ TriggersIn(text, OpenTriggers) = {}
  THEN Null
  ELSE Some(FirstTrigger(text, Apps))

\* Intent
Intent(category, action, confidence, entities, raw_text) ==
  [category |-> category, action |-> action, confidence |-> confidence,
   entities |-> entities, raw_text |-> raw_text]

GreetingWords == {"hi", "hello", "hey", "howdy"}

\* classify_intent without the test on the greeting words.
NoGreetingShortcut(text_lower) == FALSE

\* text_lower in greeting_words or (one word and in greeting_words)
GreetingShortcut(text_lower) ==
  \/ \E g \in GreetingWords : text_lower = Chars(g)
  \/ Len(Split(text_lower)) = 1 /\ \E g \in GreetingWords : text_lower = Chars(g)

\* The loop of classify_intent over the catalog: the score of every key, in
\* the order of the dict.
AllMatches(text_lower, fuzzy, ratio) ==
  [k \in DOMAIN Catalog |-> match_patterns(text_lower, Catalog[k].patterns, fuzzy, ratio)]

\* best_match: the first key whose score is above every score before it and
\* not below any after it (0 when no score is above 0).
BestKey(scores) ==
  IF \A k \in DOMAIN scores : scores[k].score = 0 THEN 0
  ELSE CHOOSE k \in DOMAIN scores :
         /\ \A j \in DOMAIN scores : scores[j].score <= scores[k].score
         /\ \A j \in 1..(k - 1) : scores[j].score < scores[k].score

\* classify_intent(text), with the scores its loop collected.
Classification(intent, scores) == [intent |-> intent, matches |-> scores]

classify(text, fuzzy, ratio) ==
  LET text_lower == Strip(Lower(text)) IN
  IF text_lower = <<>>
  THEN Classification(Intent("UNKNOWN", "unknown", 0, NoEntities, text), <<>>)
  ELSE IF GreetingShortcut(text_lower)
  THEN Classification(Intent("CONVERSATION", "greeting", Points(100), NoEntities, text),
                      <<>>)
  ELSE
    LET scores == AllMatches(text_lower, fuzzy, ratio)
        best == BestKey(scores)
    IN IF best # 0 /\ scores[best].score >= Points(confidence_threshold)
       THEN LET parts == SplitKey(Catalog[best].key)
            IN Classification(
                 Intent(get_category(parts[1]), parts[2], scores[best].score,
                        extract_entities(text_lower, Catalog[best].key), text),
                 scores)
       ELSE IF check_app_open(text_lower) # Null
       THEN Classification(
              Intent("APPLICATION", "open", Points(85),
                     "app_name" :> PyStr(check_app_open(text_lower)[1]), text),
              scores)
       ELSE Classification(
              Intent("CONVERSATION", "general", Points(50), NoEntities, text), scores)

(***************************************************************************)
(* Speech input: the wake word (audio/stt.py)                              *)
(***************************************************************************)
\* config.WAKE_WORDS, as set_wake_words keeps them
WAKE_WORDS == <<"jarvis", "hey jarvis", "ok jarvis", "yo jarvis">>

\* _check_wake_word(text): the first wake word the text holds decides, and the
\* command is what follows its first occurrence.
check_wake_word(text) ==
  LET text_lower == Strip(Lower(text)) IN
  IF TriggersIn(text_lower, WAKE_WORDS) = {}
  THEN [detected |-> FALSE, command |-> text]
  ELSE [detected |-> TRUE, command |-> AfterTrigger(text_lower, WAKE_WORDS)]

\* What _process_audio puts on the command queue for a recognised text.
Event(type, data) == <<type, data>>
EventsFor(text, listening) ==
  LET wake == check_wake_word(text) IN
  IF text = <<>> THEN <<>>
  ELSE IF wake.detected
       THEN IF wake.command # <<>> THEN <<Event("COMMAND", wake.command)>>
            ELSE <<Event("WAKE", <<>>)>>
       ELSE IF listening THEN <<Event("COMMAND", text)>> ELSE <<>>

(***************************************************************************)
(* Skills: remembering (skills/conversation.py)                            *)
(***************************************************************************)
RememberRawTriggers == <<"remember that", "remember", "note that", "save">>

\* The content handle_remember keeps: the entity, or what follows the trigger
\* in the raw text.
RememberContent(intent) ==
  LET given_content == IF "content" \in DOMAIN intent.entities
                       THEN Strip(intent.entities["content"].val)
                       ELSE <<>>
      raw == Lower(intent.raw_text)
  IN IF given_content # <<>> THEN given_content
     ELSE IF TriggersIn(raw, RememberRawTriggers) = {} THEN <<>>
     ELSE AfterTrigger(raw, RememberRawTriggers)

PersonalWords == <<"name is", "called", "i am">>
PreferenceWords == <<"like", "love", "favorite", "prefer">>
ScheduleWords == <<"meeting", "appointment", "deadline", "tomorrow">>

\* The category handle_remember files the content under.
RememberCategory(content) ==
  IF TriggersIn(Lower(content), PersonalWords) # {} THEN "personal"
  ELSE IF TriggersIn(Lower(content), PreferenceWords) # {} THEN "preferences"
  ELSE IF TriggersIn(Lower(content), ScheduleWords) # {} THEN "schedule"
  ELSE "general"

\* learn_fact(category, content): confidence is left at 1.0 (in hundredths).
DefaultConfidence == 100

\* The facts table once handle_remember has run.
Remembered(rows, intent, utcnow) ==
  LET content == RememberContent(intent) IN
  IF content = <<>> THEN rows
  ELSE Append(rows, FactRow(Chars(RememberCategory(content)), content,
                            DefaultConfidence, utcnow))

(***************************************************************************)
(* One utterance on its way to a handler                                   *)
(***************************************************************************)
MaxTokens == 2              \* words of the texts built from the vocabulary

NoClassified == Intent(None, None, 0, NoEntities, <<>>)
NoServed == [done |-> FALSE, success |-> FALSE, handler |-> Absent]

BrainIdle ==
  /\ fuzzy_available = FALSE
  /\ partial_ratio = 0
  /\ heard = <<>>
  /\ via = "none"
  /\ listening_for_command = FALSE
  /\ cpc = "off"
  /\ classified = NoClassified
  /\ matches = <<>>
  /\ served = NoServed
  /\ captured = <<>>
  /\ queued = <<>>

(***************************************************************************)
(* Engine: values                                                          *)
(***************************************************************************)
MaxCalls == 2               \* calls the embedding program makes into the engine
MaxSignals == 1             \* termination signals delivered
MaxCommands == 1            \* commands supplied: spoken, typed or passed in
MaxWakes == 1               \* wake words heard

EngineStates ==
  {"STOPPED", "STARTING", "RUNNING", "LISTENING", "PROCESSING", "SPEAKING",
   "STOPPING"}

\* The collaborators in the order initialize() obtains them.
Components == <<"brain", "dispatcher", "memory", "tts", "stt">>

\* The step of initialize() that raises, if any.  A failure while the skill
\* modules are imported is caught inside _register_skills.
InitFailPoints == {"none", "brain", "dispatcher", "memory", "tts", "stt", "skills"}

\* The collaborators held once initialize() has got as far as it gets.
WiredUpTo(fail) ==
  CASE fail = "brain" -> {}
    [] fail = "dispatcher" -> {"brain"}
    [] fail = "memory" -> {"brain", "dispatcher"}
    [] fail = "tts" -> {"brain", "dispatcher", "memory"}
    [] fail = "stt" -> {"brain", "dispatcher", "memory", "tts"}
    [] OTHER -> {"brain", "dispatcher", "memory", "tts", "stt"}

\* The registrations each skill module makes when imported: the name (the
\* function's), the category and the actions.
SystemSkills ==
  << <<"handle_shutdown", "SYSTEM", {"shutdown"}>>,
     <<"handle_restart", "SYSTEM", {"restart"}>>,
     <<"handle_lock", "SYSTEM", {"lock"}>>,
     <<"handle_screenshot", "SYSTEM", {"screenshot"}>>,
     <<"handle_volume_up", "VOLUME", {"up"}>>,
     <<"handle_volume_down", "VOLUME", {"down"}>>,
     <<"handle_volume_mute", "VOLUME", {"mute"}>>,
     <<"handle_volume_unmute", "VOLUME", {"unmute"}>>,
     <<"handle_volume_set", "VOLUME", {"set"}>> >>

AppSkills ==
  << <<"handle_app_open", "APPLICATION", {"open"}>>,
     <<"handle_app_close", "APPLICATION", {"close"}>>,
     <<"handle_app_list", "APPLICATION", {"list", "running"}>> >>

TimeDateSkills ==
  << <<"handle_time", "TIME_DATE", {"time"}>>,
     <<"handle_date", "TIME_DATE", {"date", "today", "day"}>>,
     <<"handle_datetime", "TIME_DATE", {"datetime", "now"}>> >>

WebSkills ==
  << <<"handle_web_search", "WEB", {"search"}>>,
     <<"handle_web_open", "WEB", {"open", "website", "site"}>>,
     <<"handle_youtube", "WEB", {"youtube"}>>,
     <<"handle_weather", "WEB", {"weather"}>> >>

ConversationSkills ==
  << <<"handle_greeting", "CONVERSATION", {"greeting"}>>,
     <<"handle_farewell", "CONVERSATION", {"farewell"}>>,
     <<"handle_thanks", "CONVERSATION", {"thanks"}>>,
     <<"handle_how_are_you", "CONVERSATION", {"how_are_you"}>>,
     <<"handle_who_are_you", "CONVERSATION", {"who_are_you"}>>,
     <<"handle_capabilities", "CONVERSATION", {"capabilities", "help"}>>,
     <<"handle_joke", "CONVERSATION", {"joke"}>>,
     <<"handle_stop", "CONVERSATION", {"stop", "cancel"}>>,
     <<"handle_remember", "MEMORY", {"remember"}>>,
     <<"handle_recall", "MEMORY", {"recall", "what_remember"}>>,
     <<"handle_forget", "MEMORY", {"forget"}>>,
     <<"handle_general", "CONVERSATION", {"general", "*"}>> >>

\* from skills import system, apps, time_date, web, conversation
SkillTable ==
  SystemSkills \o AppSkills \o TimeDateSkills \o WebSkills \o ConversationSkills

RECURSIVE SkillHandlers(_)
SkillHandlers(k) ==
  IF k = 0 THEN <<>>
  ELSE RegisterHandlers(SkillHandlers(k - 1), SkillTable[k][1], SkillTable[k][2],
                        SkillTable[k][3], SkillTable[k][1])

RECURSIVE SkillIndex(_)
SkillIndex(k) ==
  IF k = 0 THEN EmptyIndex
  ELSE RegisterIndex(SkillIndex(k - 1), SkillTable[k][1], SkillTable[k][2])

\* The commands supplied, with the intent the classifier gives each.
ECommands == {"stop", "shutdown"}
ExitPhrases == {"quit", "exit", "bye", "goodbye"}

classify_intent(cmd) ==
  CASE cmd = "stop" -> [category |-> "CONVERSATION", action |-> "stop"]
    [] cmd = "shutdown" -> [category |-> "SYSTEM", action |-> "shutdown"]
    [] OTHER -> [category |-> "CONVERSATION", action |-> "general"]

\* generate_response: the kind of phrase it picks.
generate_response(intent, result) ==
  IF intent.action \in {"shutdown", "restart", "sleep", "lock"} THEN "acknowledgment"
  ELSE IF result.error \notin {Absent, ""} THEN "error"
  ELSE IF intent.action \in {"greeting", "farewell", "thanks", "how_are_you",
                             "who_are_you", "capabilities", "joke", "stop"}
       THEN intent.action
       ELSE "acknowledgment"

\* The response _handle_command selects for a dispatch result.
SelectResponse(intent, result) ==
  IF result.success
  THEN CASE result.result = "dict_response" -> "handler_response"
         [] result.result = "str" -> "handler_text"
         [] OTHER -> generate_response(intent, result)
  ELSE IF intent.category = "UNKNOWN" THEN "not_understood"
       ELSE generate_response(intent, result)

\* An utterance submitted to the speech output; Pill is the None that
\* shutdown() puts on the queue to wake the worker.
Utterance(id, kind) == [id |-> id, kind |-> kind]
Pill == Utterance(0, "None")
NoUtterance == Utterance(0, "")

\* A frame of the control thread.
Frame(pc, cmd) ==
  [pc |-> pc, cmd |-> cmd, intent |-> NoIntent, resp |-> "", ok |-> FALSE,
   err |-> FALSE, pend |-> {}, said |-> <<>>]

Top == stack[Len(stack)]
Caller == stack[Len(stack) - 1]
Popped == SubSeq(stack, 1, Len(stack) - 1)
At(pc) == Top.pc = pc
Goto(pc) == [stack EXCEPT ![Len(stack)].pc = pc]
Push(f) == Append(stack, f)
SetTop(f) == [stack EXCEPT ![Len(stack)] = f]
Ids(q) == {q[i].id : i \in DOMAIN q} \ {0}

(***************************************************************************)
(* Engine: initial state                                                   *)
(***************************************************************************)
EngineStart ==
  /\ state = "STOPPED"
  /\ running = FALSE
  /\ wired = {}
  /\ hooks = FALSE
  /\ stack = <<Frame("idle", "")>>
  /\ exc = FALSE
  /\ initRet = None
  /\ speech_queue = <<>>
  /\ tts_running = FALSE
  /\ tts_engine = FALSE
  /\ tts_lock = "free"
  /\ wpc = "absent"
  /\ wcur = NoUtterance
  /\ stt_running = FALSE
  /\ microphone = FALSE
  /\ command_queue = <<>>
  /\ mem_lock = "free"
  /\ connection = FALSE
  /\ conversations = <<>>
  /\ spoken = <<>>
  /\ sdTrace = <<>>
  /\ stopPending = {}
  /\ discarded = {}
  /\ ninvoked = 0
  /\ nutt = 0
  /\ ncmd = 0
  /\ nwake = 0
  /\ nsig = 0
  /\ ncalls = 0

Init ==
  /\ DInit
  /\ EngineStart
  /\ StoreStart
  /\ utc_offset = 0
  /\ micAvailable \in BOOLEAN
  /\ BrainIdle

(***************************************************************************)
(* Speech output: the operations the engine calls                          *)
(***************************************************************************)
\* speak(text): the utterance is put on the queue.
Enqueue(kind) ==
  /\ speech_queue' = Append(speech_queue, Utterance(nutt + 1, kind))
  /\ nutt' = nutt + 1

\* _speak_sync on the control thread, first half: the lock is taken and the
\* text handed to the synthesizer if there is one.
SpeakSyncEnter(kind) ==
  /\ tts_lock = "free"
  /\ tts_lock' = "main"
  /\ nutt' = nutt + 1
  /\ spoken' = IF tts_engine THEN Append(spoken, Utterance(nutt + 1, kind)) ELSE spoken

\* One pass of the loop of clear_queue: an entry is taken off the queue.
ClearOne ==
  /\ speech_queue' = Tail(speech_queue)
  /\ discarded' = discarded \cup Ids(<<Head(speech_queue)>>)

(***************************************************************************)
(* The speech worker thread                                                *)
(***************************************************************************)
WorkerHead ==
  /\ wpc = "head"
  /\ wpc' = IF tts_running THEN "get" ELSE "done"
  /\ UNCHANGED <<dvars, kvars, cvars, evars, stack, exc, tvars, wcur, svars, mvars, spoken, nutt,
                 gvars, bvars>>

\* get(timeout=0.5) returns an entry: the pill ends the thread.
WorkerGet ==
  /\ wpc = "get"
  /\ speech_queue # <<>>
  /\ speech_queue' = Tail(speech_queue)
  /\ IF Head(speech_queue) = Pill
     THEN wpc' = "done" /\ UNCHANGED wcur
     ELSE wpc' = "got" /\ wcur' = Head(speech_queue)
  /\ UNCHANGED <<dvars, kvars, cvars, evars, stack, exc, tts_running, tts_engine, tts_lock, svars,
                 mvars, spoken, nutt, gvars, bvars>>

\* get(timeout=0.5) times out on the empty queue.
WorkerTimeout ==
  /\ wpc = "get"
  /\ speech_queue = <<>>
  /\ wpc' = "head"
  /\ UNCHANGED <<dvars, kvars, cvars, evars, stack, exc, tvars, wcur, svars, mvars, spoken, nutt,
                 gvars, bvars>>

WorkerSpeak ==
  /\ wpc = "got"
  /\ tts_lock = "free"
  /\ tts_lock' = "worker"
  /\ spoken' = IF tts_engine THEN Append(spoken, wcur) ELSE spoken
  /\ wpc' = "speaking"
  /\ UNCHANGED <<dvars, kvars, cvars, evars, stack, exc, speech_queue, tts_running, tts_engine,
                 wcur, svars, mvars, nutt, gvars, bvars>>

WorkerSpoken ==
  /\ wpc = "speaking"
  /\ tts_lock' = "free"
  /\ wpc' = "head"
  /\ wcur' = NoUtterance
  /\ UNCHANGED <<dvars, kvars, cvars, evars, stack, exc, speech_queue, tts_running, tts_engine,
                 svars, mvars, spoken, nutt, gvars, bvars>>

Worker == WorkerHead \/ WorkerGet \/ WorkerTimeout \/ WorkerSpeak \/ WorkerSpoken

(***************************************************************************)
(* Engine.initialize                                                       *)
(***************************************************************************)
\* initialize() without the reset of the state in its except clause.
StateAfterInitializeKept(fail) == "STARTING"

\* The state initialize() leaves when the step `fail` raises.
StateAfterInitialize(fail) ==
  IF fail \in {"none", "skills"} THEN "STARTING" ELSE "STOPPED"

Initialize(fail) ==
  /\ At("idle")
  /\ ncalls < MaxCalls
  /\ ncalls' = ncalls + 1
  /\ state' = StateAfterInitialize(fail)
  /\ initRet' = IF fail \in {"none", "skills"} THEN "True" ELSE "False"
  /\ wired' = wired \cup WiredUpTo(fail)
  /\ exc' = FALSE
  \* get_memory(): the store is opened when first constructed
  /\ connection' = IF "memory" \in WiredUpTo(fail) \ wired THEN TRUE ELSE connection
  \* get_tts(): the synthesizer and its worker thread start when first constructed
  /\ IF "tts" \in WiredUpTo(fail) \ wired
     THEN tts_running' = TRUE /\ tts_engine' = TRUE /\ wpc' = "head"
     ELSE UNCHANGED <<tts_running, tts_engine, wpc>>
  \* get_stt(): the capture device is opened when first constructed
  /\ microphone' = IF "stt" \in WiredUpTo(fail) \ wired THEN micAvailable ELSE microphone
  \* _register_skills(): the skill modules register on their first import
  /\ IF fail = "none" /\ handlers = <<>>
     THEN /\ handlers' = SkillHandlers(Len(SkillTable))
          /\ category_handlers' = SkillIndex(Len(SkillTable))
          /\ fallback' = "fallback_handler"
     ELSE UNCHANGED rvars
  /\ hooks' = (hooks \/ fail \in {"none", "skills"})
  /\ UNCHANGED <<kvars, cvars, last, regOrder, running, stack, speech_queue, tts_lock, wcur,
                 stt_running, command_queue, micAvailable, mem_lock, conversations,
                 spoken, nutt, gvars, ncmd, nwake, nsig>>

(***************************************************************************)
(* Calls into the engine and termination signals                           *)
(***************************************************************************)
CallStart ==
  /\ At("idle")
  /\ ncalls < MaxCalls
  /\ ncalls' = ncalls + 1
  /\ exc' = FALSE
  /\ stack' = Push(Frame("st_begin", ""))
  /\ UNCHANGED <<dvars, kvars, cvars, evars, tvars, wvars, svars, mvars, spoken, nutt, gvars,
                 ncmd, nwake, nsig>>

CallProcessText(cmd) ==
  /\ At("idle")
  /\ ncalls < MaxCalls
  /\ ncmd < MaxCommands
  /\ ncalls' = ncalls + 1
  /\ ncmd' = ncmd + 1
  /\ exc' = FALSE
  /\ stack' = Push(Frame("hc_begin", cmd))
  /\ UNCHANGED <<dvars, kvars, cvars, evars, tvars, wvars, svars, mvars, spoken, nutt, gvars,
                 nwake, nsig>>

CallShutdown ==
  /\ At("idle")
  /\ ncalls < MaxCalls
  /\ ncalls' = ncalls + 1
  /\ exc' = FALSE
  /\ stack' = Push(Frame("sd_check", ""))
  /\ UNCHANGED <<dvars, kvars, cvars, evars, tvars, wvars, svars, mvars, spoken, nutt, gvars,
                 ncmd, nwake, nsig>>

\* SIGINT or SIGTERM: _signal_handler runs on the control thread, on top of
\* whatever it was doing, and calls shutdown().
Signal ==
  /\ hooks
  /\ nsig < MaxSignals
  /\ nsig' = nsig + 1
  /\ stack' = Push(Frame("sd_check", ""))
  /\ UNCHANGED <<dvars, kvars, cvars, evars, exc, tvars, wvars, svars, mvars, spoken, nutt, gvars,
                 ncmd, nwake, ncalls>>

(***************************************************************************)
(* Engine.shutdown                                                         *)
(***************************************************************************)
\* shutdown() with the speech output shut down before the speech input.
ShutdownStepsOutputFirst == <<"farewell", "tts", "stt", "memory">>

\* The collaborator steps of shutdown(), in the order the code takes them.
ShutdownSteps == <<"farewell", "stt", "tts", "memory">>

\* The pc at which the step of that name starts.
StepPc(step) ==
  CASE step = "farewell" -> "sd_farewell"
    [] step = "stt" -> "sd_stt"
    [] step = "tts" -> "sd_tts"
    [] step = "memory" -> "sd_mem"

\* Where shutdown() goes once the collaborator step of that name is done.
AfterStep(step) ==
  LET k == CHOOSE i \in DOMAIN ShutdownSteps : ShutdownSteps[i] = step
  IN IF k < Len(ShutdownSteps) THEN StepPc(ShutdownSteps[k + 1]) ELSE "sd_done"

\* shutdown() guarded on STOPPED instead of STOPPING.
ShutdownGuardStopped == "STOPPED"

\* The value of _state at which shutdown() returns at once.
ShutdownGuardState == "STOPPING"

\* if self._state == EngineState.STOPPING: return
SdCheck ==
  /\ At("sd_check")
  /\ stack' = IF state = ShutdownGuardState THEN Popped ELSE Goto("sd_set")
  /\ UNCHANGED <<dvars, kvars, cvars, evars, exc, tvars, wvars, svars, mvars, spoken, nutt, gvars,
                 bvars>>

SdSet ==
  /\ At("sd_set")
  /\ state' = "STOPPING"
  /\ running' = FALSE
  /\ sdTrace' = <<"STOPPING">>
  /\ stack' = Goto(StepPc(ShutdownSteps[1]))
  /\ UNCHANGED <<dvars, kvars, cvars, wired, hooks, initRet, exc, tvars, wvars, svars, mvars,
                 spoken, nutt, stopPending, discarded, ninvoked, bvars>>

\* speak_immediate, first part: clear_queue() takes the entries off one by one.
SdFarewellClear ==
  /\ At("sd_farewell")
  /\ IF "tts" \notin wired
     THEN stack' = Goto(AfterStep("farewell")) /\ UNCHANGED <<speech_queue, discarded>>
     ELSE IF speech_queue # <<>>
          THEN ClearOne /\ UNCHANGED stack
          ELSE stack' = Goto("sd_speak") /\ UNCHANGED <<speech_queue, discarded>>
  /\ UNCHANGED <<dvars, kvars, cvars, evars, exc, tts_running, tts_engine, tts_lock, wvars, svars,
                 mvars, spoken, nutt, sdTrace, stopPending, ninvoked, bvars>>

\* speak_immediate, second part: speak(text, block=True) takes the lock.
SdFarewellSpeak ==
  /\ At("sd_speak")
  /\ SpeakSyncEnter("farewell")
  /\ sdTrace' = Append(sdTrace, "farewell")
  /\ stack' = Goto("sd_speak_in")
  /\ UNCHANGED <<dvars, kvars, cvars, evars, exc, speech_queue, tts_running, tts_engine, wvars,
                 svars, mvars, stopPending, discarded, ninvoked, bvars>>

SdFarewellSpoken ==
  /\ At("sd_speak_in")
  /\ tts_lock' = "free"
  /\ stack' = Goto(AfterStep("farewell"))
  /\ UNCHANGED <<dvars, kvars, cvars, evars, exc, speech_queue, tts_running, tts_engine, wvars,
                 svars, mvars, spoken, nutt, gvars, bvars>>

\* stt.shutdown(): stop_listening() and clear_queue().
SdStt ==
  /\ At("sd_stt")
  /\ IF "stt" \in wired
     THEN /\ stt_running' = FALSE
          /\ command_queue' = <<>>
          /\ sdTrace' = Append(sdTrace, "stt")
     ELSE UNCHANGED <<stt_running, command_queue, sdTrace>>
  /\ stack' = Goto(AfterStep("stt"))
  /\ UNCHANGED <<dvars, kvars, cvars, evars, exc, tvars, wvars, microphone, micAvailable, mvars,
                 spoken, nutt, stopPending, discarded, ninvoked, bvars>>

\* tts.shutdown(): the pill is queued, the worker is waited for at most two
\* seconds, the synthesizer is stopped and dropped.
SdTts ==
  /\ At("sd_tts")
  /\ IF "tts" \in wired
     THEN /\ tts_running' = FALSE
          /\ speech_queue' = Append(speech_queue, Pill)
          /\ tts_engine' = FALSE
          /\ sdTrace' = Append(sdTrace, "tts")
     ELSE UNCHANGED <<tts_running, speech_queue, tts_engine, sdTrace>>
  /\ stack' = Goto(AfterStep("tts"))
  /\ UNCHANGED <<dvars, kvars, cvars, evars, exc, tts_lock, wvars, svars, mvars, spoken, nutt,
                 stopPending, discarded, ninvoked, bvars>>

\* memory.shutdown(): cleanup() takes the lock twice, then the store is closed.
SdMemExpired ==
  /\ At("sd_mem")
  /\ IF "memory" \notin wired
     THEN stack' = Goto(AfterStep("memory")) /\ UNCHANGED mem_lock
     ELSE /\ mem_lock = "free"
          /\ mem_lock' = "main"
          /\ stack' = Goto("sd_mem_in")
  /\ UNCHANGED <<dvars, kvars, cvars, evars, exc, tvars, wvars, svars, connection, conversations,
                 spoken, nutt, gvars, bvars>>

SdMemExpiredDone ==
  /\ At("sd_mem_in")
  /\ mem_lock' = "free"
  /\ stack' = Goto("sd_mem_old")
  /\ UNCHANGED <<dvars, kvars, cvars, evars, exc, tvars, wvars, svars, connection, conversations,
                 spoken, nutt, gvars, bvars>>

SdMemOld ==
  /\ At("sd_mem_old")
  /\ mem_lock = "free"
  /\ mem_lock' = "main"
  /\ stack' = Goto("sd_mem_old_in")
  /\ UNCHANGED <<dvars, kvars, cvars, evars, exc, tvars, wvars, svars, connection, conversations,
                 spoken, nutt, gvars, bvars>>

SdMemClose ==
  /\ At("sd_mem_old_in")
  /\ mem_lock' = "free"
  /\ connection' = FALSE
  /\ sdTrace' = Append(sdTrace, "memory")
  /\ stack' = Goto(AfterStep("memory"))
  /\ UNCHANGED <<dvars, kvars, cvars, evars, exc, tvars, wvars, svars, conversations, spoken, nutt,
                 stopPending, discarded, ninvoked, bvars>>

SdDone ==
  /\ At("sd_done")
  /\ state' = "STOPPED"
  /\ sdTrace' = Append(sdTrace, "STOPPED")
  /\ stack' = Popped
  /\ UNCHANGED <<dvars, kvars, cvars, running, wired, hooks, initRet, exc, tvars, wvars, svars,
                 mvars, spoken, nutt, stopPending, discarded, ninvoked, bvars>>

Shutdown ==
  \/ SdCheck \/ SdSet \/ SdFarewellClear \/ SdFarewellSpeak \/ SdFarewellSpoken
  \/ SdStt \/ SdTts \/ SdMemExpired \/ SdMemExpiredDone \/ SdMemOld \/ SdMemClose
  \/ SdDone

(***************************************************************************)
(* Engine.start, _run_text_mode and _main_loop                             *)
(***************************************************************************)
\* What the collaborators outside the model do: whether the classifier raises,
\* what the handler and the fallback do if invoked, and what an observer of
\* the engine does ("none": no observer is installed).
ObserverOutcomes == {"none", "returns", "raises"}

\* A frame returns to its caller; what it raised, if anything, reaches the
\* embedding program unless the caller is one of the loops, which log it.
ReturnTo(raised) ==
  /\ stack' = Popped
  /\ exc' = IF Caller.pc = "idle" THEN raised ELSE exc

\* The loop start() runs once the startup announcement is made.
LoopFor(mic) == IF mic THEN "ml_loop" ELSE "st_textmode"

\* start() up to the banner, which asks the dispatcher for its skills.
StBegin ==
  /\ At("st_begin")
  /\ IF running
     THEN ReturnTo(FALSE) /\ UNCHANGED <<running, state>>
     ELSE /\ running' = TRUE
          /\ state' = "RUNNING"
          /\ IF "dispatcher" \in wired
             THEN stack' = Goto("st_announce") /\ UNCHANGED exc
             ELSE ReturnTo(TRUE)
  /\ UNCHANGED <<dvars, kvars, cvars, wired, hooks, initRet, tvars, wvars, svars, mvars, spoken,
                 nutt, gvars, bvars>>

\* tts.speak("Jarvis online ...", block=True)
StAnnounce ==
  /\ At("st_announce")
  /\ IF "tts" \in wired
     THEN SpeakSyncEnter("startup") /\ stack' = Goto("st_announce_in") /\ UNCHANGED exc
     ELSE ReturnTo(TRUE) /\ UNCHANGED <<tts_lock, nutt, spoken>>
  /\ UNCHANGED <<dvars, kvars, cvars, evars, speech_queue, tts_running, tts_engine, wvars, svars,
                 mvars, gvars, bvars>>

StAnnounced ==
  /\ At("st_announce_in")
  /\ tts_lock' = "free"
  /\ stack' = Goto("st_voice")
  /\ UNCHANGED <<dvars, kvars, cvars, evars, exc, speech_queue, tts_running, tts_engine, wvars,
                 svars, mvars, spoken, nutt, gvars, bvars>>

\* The microphone test: stt.initialize() is tried again when there is none;
\* with a microphone the capture thread is started and the state is LISTENING.
StVoice ==
  /\ At("st_voice")
  /\ IF "stt" \notin wired
     THEN ReturnTo(TRUE) /\ UNCHANGED <<microphone, stt_running, state>>
     ELSE /\ microphone' = (microphone \/ micAvailable)
          /\ stack' = Goto(LoopFor(microphone'))
          /\ stt_running' = (stt_running \/ microphone')
          /\ state' = IF microphone' THEN "LISTENING" ELSE state
          /\ UNCHANGED exc
  /\ UNCHANGED <<dvars, kvars, cvars, running, wired, hooks, initRet, tvars, wvars, command_queue,
                 micAvailable, mvars, spoken, nutt, gvars, bvars>>

\* tts.speak("Voice input unavailable ...", block=True)
StTextAnnounce ==
  /\ At("st_textmode")
  /\ SpeakSyncEnter("textmode")
  /\ stack' = Goto("st_textmode_in")
  /\ UNCHANGED <<dvars, kvars, cvars, evars, exc, speech_queue, tts_running, tts_engine, wvars,
                 svars, mvars, gvars, bvars>>

StTextAnnounced ==
  /\ At("st_textmode_in")
  /\ tts_lock' = "free"
  /\ stack' = Goto("tl_loop")
  /\ UNCHANGED <<dvars, kvars, cvars, evars, exc, speech_queue, tts_running, tts_engine, wvars,
                 svars, mvars, spoken, nutt, gvars, bvars>>

\* while self._running: ... ; self.shutdown()  (either loop)
LoopHead(loop, body) ==
  /\ At(loop)
  /\ stack' = IF running THEN Goto(body)
              ELSE Append(Goto("st_ret"), Frame("sd_check", ""))
  /\ UNCHANGED <<dvars, kvars, cvars, evars, exc, tvars, wvars, svars, mvars, spoken, nutt, gvars,
                 bvars>>

TlHead == LoopHead("tl_loop", "tl_input")
MlHead == LoopHead("ml_loop", "ml_get")

\* input() returns an empty line: continue.
TlEmpty ==
  /\ At("tl_input")
  /\ stack' = Goto("tl_loop")
  /\ UNCHANGED <<dvars, kvars, cvars, evars, exc, tvars, wvars, svars, mvars, spoken, nutt, gvars,
                 bvars>>

\* input() returns an exit phrase or raises EOFError: break, then shutdown().
TlBreak(line) ==
  /\ At("tl_input")
  /\ line \in ExitPhrases \cup {"EOF"}
  /\ stack' = Append(Goto("st_ret"), Frame("sd_check", ""))
  /\ UNCHANGED <<dvars, kvars, cvars, evars, exc, tvars, wvars, svars, mvars, spoken, nutt, gvars,
                 bvars>>

\* input() returns a command: _handle_command(command).
TlCommand(cmd) ==
  /\ At("tl_input")
  /\ ncmd < MaxCommands
  /\ ncmd' = ncmd + 1
  /\ stack' = Append(Goto("tl_loop"), Frame("hc_begin", cmd))
  /\ UNCHANGED <<dvars, kvars, cvars, evars, exc, tvars, wvars, svars, mvars, spoken, nutt, gvars,
                 nwake, nsig, ncalls>>

\* get_command(timeout=0.5) times out: the loop sleeps and goes round.
MlTimeout ==
  /\ At("ml_get")
  /\ command_queue = <<>>
  /\ stack' = Goto("ml_loop")
  /\ UNCHANGED <<dvars, kvars, cvars, evars, exc, tvars, wvars, svars, mvars, spoken, nutt, gvars,
                 bvars>>

\* A queue read from its newest end.
get_newest(q) == [event |-> q[Len(q)], rest |-> SubSeq(q, 1, Len(q) - 1)]

\* get_command on a queue that is not empty: queue.Queue.get hands out the
\* oldest event.
get_command(q) == [event |-> Head(q), rest |-> Tail(q)]

\* get_command returns a WAKE event: _handle_wake() sets LISTENING, speaks the
\* greeting and calls the wake observer, whose error reaches the loop.
MlWake(observer) ==
  /\ At("ml_get")
  /\ command_queue # <<>>
  /\ get_command(command_queue).event[1] = "WAKE"
  /\ command_queue' = get_command(command_queue).rest
  /\ state' = "LISTENING"
  /\ Enqueue("greeting")
  /\ stack' = IF observer = "raises"
              THEN SetTop([Top EXCEPT !.pc = "ml_caught", !.err = TRUE])
              ELSE Goto("ml_loop")
  /\ UNCHANGED <<dvars, kvars, cvars, running, wired, hooks, initRet, exc, tts_running, tts_engine,
                 tts_lock, wvars, stt_running, microphone, micAvailable, mvars,
                 spoken, gvars, bvars>>

\* The loop left by the error it caught.
AfterCaughtLeaves == "st_ret"

\* Where the loop goes from its except clause.
AfterCaught == "ml_loop"

\* except Exception: the error is logged, the loop sleeps and goes round.
MlCaught ==
  /\ At("ml_caught")
  /\ stack' = Goto(AfterCaught)
  /\ UNCHANGED <<dvars, kvars, cvars, evars, exc, tvars, wvars, svars, mvars, spoken, nutt, gvars,
                 bvars>>

\* get_command returns a COMMAND event: _handle_command(data).
MlCommand ==
  /\ At("ml_get")
  /\ command_queue # <<>>
  /\ get_command(command_queue).event[1] = "COMMAND"
  /\ command_queue' = get_command(command_queue).rest
  /\ stack' = Append(Goto("ml_loop"),
                     Frame("hc_begin", get_command(command_queue).event[2]))
  /\ UNCHANGED <<dvars, kvars, cvars, evars, exc, tvars, wvars, stt_running, microphone,
                 micAvailable, mvars, spoken, nutt, gvars, bvars>>

\* start() returns after the shutdown() that follows its loop.
StReturn ==
  /\ At("st_ret")
  /\ ReturnTo(FALSE)
  /\ UNCHANGED <<dvars, kvars, cvars, evars, tvars, wvars, svars, mvars, spoken, nutt, gvars, bvars>>

\* The capture threads recognise a wake word or a command (_dispatch_command).
HearWake ==
  /\ stt_running
  /\ nwake < MaxWakes
  /\ nwake' = nwake + 1
  /\ command_queue' = Append(command_queue, <<"WAKE", "">>)
  /\ UNCHANGED <<dvars, kvars, cvars, evars, stack, exc, tvars, wvars, stt_running, microphone,
                 micAvailable, mvars, spoken, nutt, gvars, ncmd, nsig, ncalls>>

HearCommand(cmd) ==
  /\ stt_running
  /\ ncmd < MaxCommands
  /\ ncmd' = ncmd + 1
  /\ command_queue' = Append(command_queue, <<"COMMAND", cmd>>)
  /\ UNCHANGED <<dvars, kvars, cvars, evars, stack, exc, tvars, wvars, stt_running, microphone,
                 micAvailable, mvars, spoken, nutt, gvars, nwake, nsig, ncalls>>

Start ==
  \/ StBegin \/ StAnnounce \/ StAnnounced \/ StVoice \/ StTextAnnounce
  \/ StTextAnnounced \/ TlHead \/ MlHead \/ TlEmpty
  \/ (\E l \in ExitPhrases \cup {"EOF"} : TlBreak(l))
  \/ (\E c \in ECommands : TlCommand(c))
  \/ MlTimeout \/ (\E o \in ObserverOutcomes : MlWake(o)) \/ MlCaught \/ MlCommand
  \/ StReturn

(***************************************************************************)
(* Engine._handle_command                                                  *)
(***************************************************************************)
\* _handle_command without the stop test.
AfterClassifyNoStopTest(intent) == "hc_dispatch"

\* Where _handle_command goes once the intent is known.
AfterClassify(intent) == IF intent.action = "stop" THEN "hc_stop" ELSE "hc_dispatch"

\* self._state = PROCESSING; memory.add_conversation("user", command) takes
\* the store's lock.
HcBegin ==
  /\ At("hc_begin")
  /\ state' = "PROCESSING"
  /\ IF "memory" \in wired
     THEN /\ mem_lock = "free"
          /\ mem_lock' = "main"
          /\ stack' = Goto("hc_user_in")
     ELSE stack' = Goto("hc_except") /\ UNCHANGED mem_lock
  /\ UNCHANGED <<dvars, kvars, cvars, running, wired, hooks, initRet, exc, tvars, wvars, svars,
                 connection, conversations, spoken, nutt, gvars, bvars>>

\* The row is inserted (an error of the closed store is logged) and the lock
\* released.
HcUserLogged ==
  /\ At("hc_user_in")
  /\ conversations' = IF connection
                      THEN Append(conversations,
                                  ConversationRow("user", Top.cmd, None, UtcNow))
                      ELSE conversations
  /\ mem_lock' = "free"
  /\ stack' = Goto("hc_classify")
  /\ UNCHANGED <<dvars, kvars, cvars, evars, exc, tvars, wvars, svars, connection, spoken, nutt,
                 gvars, bvars>>

\* intent = brain.classify_intent(command); the stop test.
HcClassify(raises) ==
  /\ At("hc_classify")
  /\ IF raises
     THEN stack' = Goto("hc_except") /\ UNCHANGED stopPending
     ELSE LET intent == classify_intent(Top.cmd) IN
          /\ stack' = SetTop([Top EXCEPT !.intent = intent,
                                         !.pc = AfterClassify(intent),
                                         !.pend = IF intent.action = "stop"
                                                  THEN Ids(speech_queue) ELSE {}])
          /\ stopPending' = IF intent.action = "stop"
                            THEN stopPending \cup Ids(speech_queue)
                            ELSE stopPending
  /\ UNCHANGED <<dvars, kvars, cvars, evars, exc, tvars, wvars, svars, mvars, spoken, nutt,
                 sdTrace, discarded, ninvoked, bvars>>

\* tts.clear_queue() on the stop path: the entries are taken off one by one.
HcStopClear ==
  /\ At("hc_stop")
  /\ IF "tts" \notin wired
     THEN stack' = Goto("hc_except") /\ UNCHANGED <<speech_queue, discarded>>
     ELSE IF speech_queue # <<>>
          THEN ClearOne /\ UNCHANGED stack
          ELSE stack' = Goto("hc_stop_ack") /\ UNCHANGED <<speech_queue, discarded>>
  /\ UNCHANGED <<dvars, kvars, cvars, evars, exc, tts_running, tts_engine, tts_lock, wvars, svars,
                 mvars, spoken, nutt, sdTrace, stopPending, ninvoked, bvars>>

\* tts.speak("Okay."); self._state = LISTENING; return
HcStopAck ==
  /\ At("hc_stop_ack")
  /\ Enqueue("ack_stop")
  /\ state' = "LISTENING"
  /\ stack' = SetTop([Top EXCEPT !.pc = "hc_finally",
                                 !.said = Append(@, "ack_stop")])
  /\ UNCHANGED <<dvars, kvars, cvars, running, wired, hooks, initRet, exc, tts_running, tts_engine,
                 tts_lock, wvars, svars, mvars, spoken, gvars, bvars>>

\* result = dispatcher.dispatch(intent); self._state = SPEAKING; the response
\* is selected.
HcDispatch(hout, fout) ==
  /\ At("hc_dispatch")
  /\ IF "dispatcher" \notin wired
     THEN stack' = Goto("hc_except") /\ UNCHANGED <<state, ninvoked>>
     ELSE LET out == Dispatch(handlers, category_handlers, fallback, Top.intent,
                              hout, fout) IN
          /\ ninvoked' = ninvoked + Len(out.invoked)
          /\ IF out.raised
             THEN stack' = Goto("hc_except") /\ UNCHANGED state
             ELSE /\ state' = "SPEAKING"
                  /\ stack' = SetTop([Top EXCEPT
                                        !.pc = "hc_speak",
                                        !.ok = out.success,
                                        !.resp = SelectResponse(Top.intent, out)])
  /\ UNCHANGED <<dvars, kvars, cvars, running, wired, hooks, initRet, exc, tvars, wvars, svars,
                 mvars, spoken, nutt, sdTrace, stopPending, discarded, bvars>>

\* tts.speak(response); on success memory.add_conversation("assistant", ...)
\* takes the store's lock.
HcSpeak ==
  /\ At("hc_speak")
  /\ IF "tts" \notin wired
     THEN /\ stack' = Goto("hc_except")
          /\ UNCHANGED <<speech_queue, nutt, mem_lock>>
     ELSE /\ Enqueue(Top.resp)
          /\ IF Top.ok
             THEN /\ mem_lock = "free"
                  /\ mem_lock' = "main"
                  /\ stack' = SetTop([Top EXCEPT !.pc = "hc_asst_in",
                                                 !.said = Append(@, Top.resp)])
             ELSE /\ stack' = SetTop([Top EXCEPT !.pc = "hc_notify",
                                                 !.said = Append(@, Top.resp)])
                  /\ UNCHANGED mem_lock
  /\ UNCHANGED <<dvars, kvars, cvars, evars, exc, tts_running, tts_engine, tts_lock, wvars, svars,
                 connection, conversations, spoken, gvars, bvars>>

HcAsstLogged ==
  /\ At("hc_asst_in")
  /\ conversations' = IF connection
                      THEN Append(conversations,
                                  ConversationRow("assistant", Top.resp,
                                                  Top.intent.action, UtcNow))
                      ELSE conversations
  /\ mem_lock' = "free"
  /\ stack' = Goto("hc_notify")
  /\ UNCHANGED <<dvars, kvars, cvars, evars, exc, tvars, wvars, svars, connection, spoken, nutt,
                 gvars, bvars>>

\* if self._on_response: self._on_response(response)
HcNotify(observer) ==
  /\ At("hc_notify")
  /\ stack' = Goto(IF observer = "raises" THEN "hc_except" ELSE "hc_finally")
  /\ UNCHANGED <<dvars, kvars, cvars, evars, exc, tvars, wvars, svars, mvars, spoken, nutt, gvars,
                 bvars>>

\* except Exception: the apology is spoken; without a speech output that call
\* raises in its turn and the error leaves _handle_command.
ApologyRaises == "tts" \notin wired

HcExcept ==
  /\ At("hc_except")
  /\ IF ApologyRaises
     THEN /\ stack' = SetTop([Top EXCEPT !.pc = "hc_finally", !.err = TRUE])
          /\ UNCHANGED <<speech_queue, nutt>>
     ELSE /\ Enqueue("apology")
          /\ stack' = SetTop([Top EXCEPT !.pc = "hc_finally",
                                         !.said = Append(@, "apology")])
  /\ UNCHANGED <<dvars, kvars, cvars, evars, exc, tts_running, tts_engine, tts_lock, wvars, svars,
                 mvars, spoken, gvars, bvars>>

\* The state _handle_command leaves on every way out.
FinalState == "LISTENING"

\* finally: self._state = LISTENING, and the call returns or raises.
HcFinally ==
  /\ At("hc_finally")
  /\ state' = FinalState
  /\ ReturnTo(Top.err)
  /\ UNCHANGED <<dvars, kvars, cvars, running, wired, hooks, initRet, tvars, wvars, svars, mvars,
                 spoken, nutt, gvars, bvars>>

HandleCommand ==
  \/ HcBegin \/ HcUserLogged
  \/ (\E r \in BOOLEAN : HcClassify(r))
  \/ HcStopClear \/ HcStopAck
  \/ (\E h \in Outcomes, f \in Outcomes : HcDispatch(h, f))
  \/ HcSpeak \/ HcAsstLogged
  \/ (\E o \in ObserverOutcomes : HcNotify(o))
  \/ HcExcept \/ HcFinally

(***************************************************************************)
(* The engine                                                              *)
(***************************************************************************)
Next ==
  \/ (\E f \in InitFailPoints : Initialize(f))
  \/ CallStart
  \/ (\E c \in ECommands : CallProcessText(c))
  \/ CallShutdown
  \/ Signal
  \/ Start
  \/ HearWake
  \/ (\E c \in ECommands : HearCommand(c))
  \/ HandleCommand
  \/ Shutdown
  \/ Worker

Spec == Init /\ [][Next]_vars

\* The threads run on: the control thread takes its next step whenever it can,
\* and so does the speech worker.  Calls, signals, speech and typed lines are
\* the environment's and come or not.
ControlStep == HandleCommand \/ Shutdown

FairSpec == Spec /\ WF_vars(ControlStep) /\ WF_vars(Worker)

\* The steps of start() and of the main loop, which wait for nothing but the
\* half second of get_command; the text loop waits for a typed line.
MainLoop ==
  \/ StBegin \/ StAnnounce \/ StAnnounced \/ StVoice \/ StTextAnnounce
  \/ StTextAnnounced \/ MlHead \/ MlTimeout
  \/ (\E o \in ObserverOutcomes : MlWake(o)) \/ MlCaught \/ MlCommand

LoopFairSpec == FairSpec /\ WF_vars(MainLoop)

\* The registry alone, on an engine that is never touched.
RegistryInit ==
  /\ handlers = <<>>
  /\ category_handlers = EmptyIndex
  /\ fallback = None
  /\ last = NoLast
  /\ regOrder = <<>>
  /\ EngineStart
  /\ StoreStart
  /\ utc_offset = 0
  /\ micAvailable = FALSE
  /\ BrainIdle

SpecDispatch == RegistryInit /\ [][DNext]_vars

\* The store alone, in any time zone, on an engine that is never touched.
MemoryInit ==
  /\ DInit
  /\ EngineStart
  /\ StoreStart
  /\ utc_offset \in UtcOffsets
  /\ micAvailable = FALSE
  /\ BrainIdle

SpecMemory == MemoryInit /\ [][MemNext]_vars

(***************************************************************************)
(* One utterance from the microphone or the keyboard to its handler        *)
(*                                                                         *)
(* The engine is up with every skill registered and the store open; one    *)
(* text comes in, by voice (through the wake word test and the command     *)
(* queue) or typed (process_text_command), is classified and dispatched.   *)
(* What the engine says and logs for it is the part of Spec.               *)
(***************************************************************************)
\* The trigger phrases of the catalog.
PhraseTexts ==
  UNION {Range(Catalog[k].patterns) : k \in DOMAIN Catalog}

\* Texts of one word and more from a small vocabulary, single blanks between.
Vocabulary == {"time", "volume", "up", "it", "stop", "hi", "the", "vlc"}
RECURSIVE WordTexts(_)
WordTexts(n) ==
  IF n = 1 THEN {Chars(w) : w \in Vocabulary}
  ELSE {t \o <<Space>> \o Chars(w) : t \in WordTexts(n - 1), w \in Vocabulary}
VocabularyTexts == UNION {WordTexts(n) : n \in 1..MaxTokens}

\* Whole utterances, some with capitals and blanks around them.
Utterances ==
  {"", "   ", "jarvis what time is it", "Jarvis", "hey jarvis open notepad",
   "what time is it jarvis", "remember that my meeting is at five",
   "Remember that my meeting is at five", " Hello ", "HOWDY", "Hey", "hi there",
   "  Time ", "Shut Down", "open chrome please", "open", "reopen vlc",
   "launch the calculator now", "close notepad", "search for cats",
   "play on youtube cats", "set volume to 50", "set volume to", "note that",
   "remember", "what do you know about tea", "do you remember", "tell me a story",
   "xyzzy plugh", "shut down the computor", "please save my name is tom"}

BrainTexts == PhraseTexts \cup VocabularyTexts \cup {Chars(u) : u \in Utterances}

\* The builds: without rapidfuzz, or with it and one of its ratings.
Builds == {<<FALSE, 0>>} \cup {<<TRUE, r>> : r \in FuzzyRatios}

BrainInit ==
  /\ handlers = SkillHandlers(Len(SkillTable))
  /\ category_handlers = SkillIndex(Len(SkillTable))
  /\ fallback = "fallback_handler"
  /\ last = NoLast
  /\ regOrder = <<>>
  /\ state = "LISTENING"
  /\ running = TRUE
  /\ wired = Range(Components)
  /\ hooks = TRUE
  /\ stack = <<Frame("idle", "")>>
  /\ exc = FALSE
  /\ initRet = "True"
  /\ speech_queue = <<>>
  /\ tts_running = TRUE
  /\ tts_engine = TRUE
  /\ tts_lock = "free"
  /\ wpc = "head"
  /\ wcur = NoUtterance
  /\ stt_running = TRUE
  /\ microphone = TRUE
  /\ micAvailable = TRUE
  /\ command_queue = <<>>
  /\ mem_lock = "free"
  /\ connection = TRUE
  /\ conversations = <<>>
  /\ spoken = <<>>
  /\ sdTrace = <<>>
  /\ stopPending = {}
  /\ discarded = {}
  /\ ninvoked = 0
  /\ nutt = 0
  /\ ncmd = 0
  /\ nwake = 0
  /\ nsig = 0
  /\ ncalls = 0
  /\ StoreStart
  /\ utc_offset = 0
  /\ \E b \in Builds : fuzzy_available = b[1] /\ partial_ratio = b[2]
  /\ heard \in BrainTexts
  /\ via \in {"voice", "typed"}
  /\ listening_for_command \in IF via = "voice" THEN BOOLEAN ELSE {FALSE}
  /\ cpc = "heard"
  /\ classified = NoClassified
  /\ matches = <<>>
  /\ served = NoServed
  /\ captured = <<>>
  /\ queued = <<>>


\* _process_audio(audio) once the text is recognised.
ProcessAudio ==
  /\ cpc = "heard"
  /\ via = "voice"
  /\ LET events == EventsFor(heard, listening_for_command) IN
     /\ command_queue' = command_queue \o events
     /\ listening_for_command' =
          (listening_for_command \/ (heard # <<>> /\ check_wake_word(heard).detected))
     /\ cpc' = IF events = <<>> THEN "dropped" ELSE "queued"
  /\ UNCHANGED <<dvars, evars, stack, exc, tvars, wvars, stt_running, microphone,
                 micAvailable, mvars, spoken, nutt, gvars, bvars, kvars,
                 fuzzy_available, partial_ratio, heard, via, classified, matches, served,
                 lvars>>

\* The main loop takes a WAKE event: _handle_wake, no classification.
TakeWake ==
  /\ cpc = "queued"
  /\ Head(command_queue)[1] = "WAKE"
  /\ command_queue' = Tail(command_queue)
  /\ state' = "LISTENING"
  /\ Enqueue("greeting")
  /\ cpc' = "woken"
  /\ UNCHANGED <<dvars, running, wired, hooks, initRet, stack, exc, tts_running,
                 tts_engine, tts_lock, wvars, stt_running, microphone, micAvailable,
                 mvars, spoken, gvars, bvars, kvars, fuzzy_available, partial_ratio,
                 heard, via, listening_for_command, classified, matches, served, lvars>>

\* _handle_command(command) as far as intent = classify_intent(command), for a
\* COMMAND event of the queue or a text passed to process_text_command.
Classify(command) ==
  LET c == classify(command, fuzzy_available, partial_ratio) IN
  /\ classified' = c.intent
  /\ matches' = c.matches
  /\ cpc' = "classified"
  /\ state' = "PROCESSING"

ClassifyCommand ==
  /\ \/ /\ cpc = "queued"
        /\ Head(command_queue)[1] = "COMMAND"
        /\ command_queue' = Tail(command_queue)
        /\ Classify(Head(command_queue)[2])
     \/ /\ cpc = "heard"
        /\ via = "typed"
        /\ UNCHANGED command_queue
        /\ Classify(heard)
  /\ UNCHANGED <<dvars, running, wired, hooks, initRet, stack, exc, tvars, wvars,
                 stt_running, microphone, micAvailable, mvars, spoken, nutt, gvars,
                 bvars, kvars, fuzzy_available, partial_ratio, heard, via,
                 listening_for_command, served, lvars>>

\* The rest of _handle_command: the stop test, then dispatch(intent); the
\* remember handler does what its code does, any other handler returns or
\* raises as h says.
DispatchIntent(h) ==
  /\ cpc = "classified"
  /\ IF classified.action = "stop"
     THEN /\ served' = [done |-> TRUE, success |-> FALSE, handler |-> Absent]
          /\ UNCHANGED facts
     ELSE LET found == ScanHandlers(handlers, category_handlers[classified.category],
                                    1, classified.action)
              hout == IF found.name = "handle_remember"
                      THEN Returns("dict_response") ELSE h
              out == Dispatch(handlers, category_handlers, fallback, classified,
                              hout, Returns("other"))
          IN /\ served' = [done |-> TRUE, success |-> out.success,
                           handler |-> out.handler]
             /\ facts' = IF out.handler = "handle_remember"
                         THEN Remembered(facts, classified, UtcNow)
                         ELSE facts
  /\ cpc' = "served"
  /\ state' = "LISTENING"
  /\ UNCHANGED <<dvars, running, wired, hooks, initRet, stack, exc, tvars, wvars, svars,
                 mvars, spoken, nutt, gvars, bvars, memory_table, given, now, utc_offset,
                 mlast, nwrites, fuzzy_available, partial_ratio, heard, via,
                 listening_for_command, classified, matches, lvars>>

BrainNext ==
  \/ ProcessAudio
  \/ TakeWake
  \/ ClassifyCommand
  \/ (\E h \in Outcomes : DispatchIntent(h))

SpecBrain == BrainInit /\ [][BrainNext]_vars

(***************************************************************************)
(* Speech input: the capture thread and the recognition tasks              *)
(* (audio/stt.py).  The capture thread hands every utterance it captured   *)
(* to a thread of its own, which recognises the text and queues the event. *)
(***************************************************************************)
MaxCaptures == 3            \* utterances captured

\* What is said to the microphone.
ListenTexts == {Chars(u) : u \in {"jarvis", "jarvis stop", "jarvis shutdown", "shutdown"}}

\* threading.Thread(target=self._process_audio, args=(audio,))
Task(text) == [text |-> text, pc |-> "recognizing"]

\* The engine is up and the capture thread runs.
ListenInit ==
  /\ handlers = SkillHandlers(Len(SkillTable))
  /\ category_handlers = SkillIndex(Len(SkillTable))
  /\ fallback = "fallback_handler"
  /\ last = NoLast
  /\ regOrder = <<>>
  /\ state = "LISTENING"
  /\ running = TRUE
  /\ wired = Range(Components)
  /\ hooks = TRUE
  /\ stack = <<Frame("idle", "")>>
  /\ exc = FALSE
  /\ initRet = "True"
  /\ speech_queue = <<>>
  /\ tts_running = TRUE
  /\ tts_engine = TRUE
  /\ tts_lock = "free"
  /\ wpc = "head"
  /\ wcur = NoUtterance
  /\ stt_running = TRUE
  /\ microphone = TRUE
  /\ micAvailable = TRUE
  /\ command_queue = <<>>
  /\ mem_lock = "free"
  /\ connection = TRUE
  /\ conversations = <<>>
  /\ spoken = <<>>
  /\ sdTrace = <<>>
  /\ stopPending = {}
  /\ discarded = {}
  /\ ninvoked = 0
  /\ nutt = 0
  /\ ncmd = 0
  /\ nwake = 0
  /\ nsig = 0
  /\ ncalls = 0
  /\ StoreStart
  /\ utc_offset = 0
  /\ BrainIdle

unlistened == <<dvars, evars, stack, exc, tvars, wvars, mvars, spoken, nutt, gvars, bvars, kvars,
                stt_running, microphone, micAvailable, fuzzy_available, partial_ratio,
                heard, via, cpc, classified, matches, served>>

\* _listen_worker: listen() returns the audio of an utterance, and a thread is
\* started to process it.
Listen(text) ==
  /\ stt_running
  /\ Len(captured) < MaxCaptures
  /\ captured' = Append(captured, Task(text))
  /\ UNCHANGED <<unlistened, command_queue, listening_for_command, queued>>

\* _listen_worker: listen() times out after the command mode has run out.
ListenTimeout ==
  /\ stt_running
  /\ listening_for_command
  /\ listening_for_command' = FALSE
  /\ UNCHANGED <<unlistened, command_queue, lvars>>

\* _process_audio of the i-th capture, once recognize_google has returned its
\* text; fresh: the wake word was heard less than the command timeout ago.
Recognized(i, fresh) ==
  /\ i \in DOMAIN captured
  /\ captured[i].pc = "recognizing"
  /\ LET text == captured[i].text
         wake == check_wake_word(text)
         events == EventsFor(text, listening_for_command /\ fresh)
     IN /\ command_queue' = command_queue \o events
        /\ queued' = IF events = <<>> THEN queued ELSE Append(queued, i)
        /\ listening_for_command' =
             IF wake.detected THEN TRUE ELSE (listening_for_command /\ fresh)
  /\ captured' = [captured EXCEPT ![i].pc = "done"]
  /\ UNCHANGED unlistened

\* _process_audio of the i-th capture when recognize_google raises
\* UnknownValueError: nothing is queued.
Unrecognized(i) ==
  /\ i \in DOMAIN captured
  /\ captured[i].pc = "recognizing"
  /\ captured' = [captured EXCEPT ![i].pc = "done"]
  /\ UNCHANGED <<unlistened, command_queue, listening_for_command, queued>>

\* The main loop takes the oldest event off the queue.
ListenTake ==
  /\ command_queue # <<>>
  /\ command_queue' = get_command(command_queue).rest
  /\ UNCHANGED <<unlistened, listening_for_command, lvars>>

ListenNext ==
  \/ (\E t \in ListenTexts : Listen(t))
  \/ ListenTimeout
  \/ (\E i \in 1..MaxCaptures, f \in BOOLEAN : Recognized(i, f))
  \/ (\E i \in 1..MaxCaptures : Unrecognized(i))
  \/ ListenTake

SpecListen == ListenInit /\ [][ListenNext]_vars

(***************************************************************************)
(* Claims about dispatch                                                   *)
(***************************************************************************)
Dispatched == last.intent # NoIntent

\* The handlers whose current registration names category c and whose action
\* set has action a or the wildcard.
RegisteredUnder(c) == {n \in DOMAIN handlers : handlers[n].category = c}
Matches(n, a) == a \in handlers[n].actions \/ "*" \in handlers[n].actions
Candidates(intent) ==
  {n \in RegisteredUnder(intent.category) : Matches(n, intent.action)}
Position(n) == CHOOSE k \in DOMAIN regOrder : regOrder[k] = n
EarliestCandidate(intent) ==
  CHOOSE n \in Candidates(intent) :
    \A m \in Candidates(intent) : Position(n) <= Position(m)

\* C8: when the handler selected by dispatch raises, dispatch returns
\* success=false with that handler's name and the error description, does not
\* raise, and invokes nothing else (neither the fallback nor another handler).
C8_HandlerErrorCaptured ==
  (Dispatched /\ last.hout.kind = "raise") =>
     /\ ~last.out.raised
     /\ last.out.success = FALSE
     /\ Len(last.out.invoked) = 1
     /\ last.out.invoked[1].who = "handler"
     /\ last.out.handler = last.out.invoked[1].name
     /\ last.out.error = last.hout.val
     /\ last.out.result = Absent

\* A dispatch whose selected handler raised while a fallback was installed.
C8_Witness ==
  /\ Dispatched /\ last.hout.kind = "raise"
  /\ fallback # None
  /\ last.out.handler \in DNames

\* C9: dispatch invokes at most one callable; when some handler registered
\* under the intent's category has the action or the wildcard, the one invoked
\* is the earliest registered of them; the fallback is invoked only when no
\* registered handler of the category matches.
C9_FirstRegisteredMatchWins ==
  Dispatched =>
     /\ Len(last.out.invoked) <= 1
     /\ Candidates(last.intent) # {} =>
          /\ Len(last.out.invoked) = 1
          /\ last.out.invoked[1] =
               Invocation("handler", EarliestCandidate(last.intent),
                          handlers[EarliestCandidate(last.intent)].handler)
     /\ (\E k \in DOMAIN last.out.invoked : last.out.invoked[k].who = "fallback")
          => Candidates(last.intent) = {}

\* C10: with no matching handler registered under the intent's category and no
\* fallback installed, dispatch returns success=false, error "No handler found",
\* no handler name, and invokes nothing.
C10_NoHandlerFound ==
  (Dispatched /\ Candidates(last.intent) = {} /\ fallback = None) =>
     /\ ~last.out.raised
     /\ last.out.success = FALSE
     /\ last.out.error = "No handler found"
     /\ last.out.handler = Absent
     /\ last.out.invoked = <<>>

\* C11: when no handler matches and the installed fallback raises, dispatch
\* returns success=false, names the fallback as the handler and carries the
\* fallback's error description.
C11_FallbackErrorCaptured ==
  (Dispatched /\ last.fout.kind = "raise") =>
     /\ ~last.out.raised
     /\ last.out.success = FALSE
     /\ last.out.handler = "fallback"
     /\ last.out.error = last.fout.val

Occurrences(s, x) == Cardinality({k \in DOMAIN s : s[k] = x})

\* C12: every registered name appears exactly once in the category index, under
\* the category of its latest registration and under no other, and a dispatch
\* that selects it calls the callable of its latest registration.
C12_RegisterIdempotent ==
  /\ \A n \in DOMAIN handlers : \A c \in Categories :
       Occurrences(category_handlers[c], n) =
         IF c = handlers[n].category THEN 1 ELSE 0
  /\ \A k \in DOMAIN last.out.invoked :
       last.out.invoked[k].who = "handler" =>
         /\ last.out.invoked[k].name \in DOMAIN handlers
         /\ last.out.invoked[k].fn = handlers[last.out.invoked[k].name].handler
         /\ handlers[last.out.invoked[k].name].category = last.intent.category

\* C13: a name that is not registered (never was, or was unregistered after
\* any registrations) is in no category list; no dispatch selects it, and no
\* dispatch fails on it.
C13_UnregisterRemoves ==
  /\ \A n \in DNames \ DOMAIN handlers : \A c \in Categories :
       Occurrences(category_handlers[c], n) = 0
  /\ Dispatched =>
       /\ ~last.out.raised
       /\ \A k \in DOMAIN last.out.invoked :
            last.out.invoked[k].who = "handler" =>
              last.out.invoked[k].name \in DOMAIN handlers

(***************************************************************************)
(* Claims about the engine                                                *)
(***************************************************************************)
IsPrefix(s, t) == Len(s) <= Len(t) /\ SubSeq(t, 1, Len(s)) = s
Frames == {stack[i] : i \in DOMAIN stack}
AllComponents == Range(Components)

\* A step of the control thread that is not the arrival of a signal.
ControlMoves == stack' # stack /\ nsig' = nsig

\* The run of _handle_command on top of the stack returns or raises.
HandleCommandEnds == At("hc_finally") /\ stack' = Popped

\* C1: every run of _handle_command ends with the state LISTENING and raises
\* nothing to its caller, whatever the collaborators do.
C1_HandleCommandNeverRaises ==
  [][HandleCommandEnds => (state' = "LISTENING" /\ ~Top.err /\ ~exc')]_vars

\* The frame of a command that classified to stop.
StopFrames == {f \in Frames : f.intent.action = "stop"}

\* The end of a run of _handle_command whose command classified to stop.
StopRunEnds == HandleCommandEnds /\ Top.intent.action = "stop"

ExpectedTrace(cs) ==
  <<"STOPPING">>
  \o (IF "tts" \in cs THEN <<"farewell">> ELSE <<>>)
  \o (IF "stt" \in cs THEN <<"stt">> ELSE <<>>)
  \o (IF "tts" \in cs THEN <<"tts">> ELSE <<>>)
  \o (IF "memory" \in cs THEN <<"memory">> ELSE <<>>)
  \o <<"STOPPED">>
FullTrace == ExpectedTrace(AllComponents)
ShutdownBodyPcs ==
  {"sd_farewell", "sd_speak", "sd_speak_in", "sd_stt", "sd_tts", "sd_mem",
   "sd_mem_in", "sd_mem_old", "sd_mem_old_in", "sd_done"}
ShutdownRunning == \E f \in Frames : f.pc \in ShutdownBodyPcs

\* C3: a shutdown that runs takes its steps in the order STOPPING, blocking
\* farewell, speech input, speech output, memory store, STOPPED; none is
\* reordered, and none is skipped whose collaborator exists.
C3_ShutdownOrder ==
  /\ sdTrace = SelectSeq(FullTrace, LAMBDA x : x \in Range(sdTrace))
  /\ ShutdownRunning =>
       /\ state = "STOPPING"
       /\ IsPrefix(sdTrace, ExpectedTrace(wired))
  /\ \A f \in Frames :
       /\ f.pc = "sd_done" => sdTrace \o <<"STOPPED">> = ExpectedTrace(wired)
       /\ f.pc = "sd_speak_in" => tts_lock = "main"
  /\ \A i \in DOMAIN speech_queue : speech_queue[i].kind # "farewell"
  /\ state = "STOPPED" /\ sdTrace # <<>> => sdTrace[Len(sdTrace)] = "STOPPED"

\* A shutdown of a fully wired engine has run to its end.
C3_Witness ==
  /\ sdTrace = FullTrace
  /\ state = "STOPPED"
  /\ \E i \in DOMAIN spoken : spoken[i].kind = "farewell"

\* C4: a shutdown call that arrives while the state is STOPPING returns at
\* once: it changes no engine state and invokes no collaborator.
C4_ShutdownIdempotent ==
  [][(At("sd_check") /\ state = "STOPPING" /\ ControlMoves) =>
       /\ stack' = Popped
       /\ UNCHANGED <<evars, exc, tvars, svars, mvars, spoken, nutt, gvars>>]_vars

\* A termination signal has arrived in the middle of a shutdown.
C4_Witness ==
  /\ At("sd_check") /\ state = "STOPPING"
  /\ Len(stack) >= 3
  /\ sdTrace # <<>>

\* C5: a shutdown that has begun always ends: the state STOPPING leads to the
\* state STOPPED.
C5_ShutdownTerminates == (state = "STOPPING") ~> (state = "STOPPED")

\* The steps of initialize() whose failure is a component's construction.
ComponentFailPoints == {"brain", "dispatcher", "memory", "tts", "stt"}

TextPcs == {"st_textmode", "st_textmode_in", "tl_loop", "tl_input"}
InTextMode == \E f \in Frames : f.pc \in TextPcs
ShutdownComplete == state = "STOPPED" /\ sdTrace # <<>>

\* The part of C7 about what the text loop does with what it reads.
TextLoopRuns ==
  /\ \A f \in {"none", "skills"} :
       (Initialize(f) /\ ~micAvailable) => initRet' = "True"
  /\ (At("st_voice") /\ "stt" \in wired /\ ~micAvailable /\ ControlMoves) =>
       Top'.pc = "st_textmode"
  /\ InTextMode => (command_queue = <<>> /\ command_queue' = <<>> /\ ~stt_running)
  /\ (At("tl_input") /\ ncmd' # ncmd) =>
       \E c \in ECommands : stack' = Append(Goto("tl_loop"), Frame("hc_begin", c))
  /\ (At("st_ret") /\ ~microphone) => state = "STOPPED"

\* The part of C7 about the interrupt: once its shutdown has left STOPPED the
\* loop handles no further line.
InterruptEndsLoop ==
  (At("tl_input") /\ ShutdownComplete /\ ControlMoves) => Top'.pc # "hc_begin"

\* C7: without audio input initialize still returns true and start runs the
\* text loop; each command line gets the command handling of a COMMAND event;
\* nothing is read from the speech-event queue; an exit phrase, end of input
\* or an interrupt ends the loop with a shutdown that leaves STOPPED.
C7_TextMode == [][TextLoopRuns /\ InterruptEndsLoop]_vars

(***************************************************************************)
(* Claims about the memory store                                           *)
(***************************************************************************)
StoredData == <<memory_table, conversations, facts>>

\* The key has a row whose expiry instant has passed on get's clock.
Expired(key) ==
  HasRow(memory_table, key) /\ PastExpiry(RowOf(memory_table, key), LocalNow)

\* C14: get(key, default) on a key whose row is past its expiry returns the
\* default and leaves the store without a row for that key; get on a missing
\* key returns the default and changes nothing.
C14_GetExpiredOrMissing ==
  [][\A k \in MKeys, d \in MDefaults :
       (MemGet(k, d) /\ connection) =>
          /\ Expired(k) =>
               (mlast'.done /\ mlast'.ret = d /\ ~HasRow(memory_table', k))
          /\ ~HasRow(memory_table, k) =>
               (mlast'.done /\ mlast'.ret = d /\ UNCHANGED StoredData)]_vars

\* The row of the key was written by set(key, value, ttl_seconds=0) and time
\* has moved on since.
ZeroTtlPassed(key) ==
  /\ connection
  /\ key \in DOMAIN given
  /\ given[key].ttl = Some(0)
  /\ LocalNow > given[key].at

\* C15: after set(k, v, ttl=0), once the expiry instant has passed, get(k)
\* returns the default and exists(k) is false.
C15_ZeroTtlExpires ==
  [][\A k \in MKeys :
       ZeroTtlPassed(k) =>
          /\ \A d \in MDefaults :
               MemGet(k, d) => (mlast'.done /\ mlast'.ret = d)
          /\ MemExists(k) => (mlast'.done /\ mlast'.ret = PyBool(FALSE))]_vars

\* The key has a row, written by a set, that is not past its expiry.
Readable(key) == connection /\ key \in DOMAIN given /\ ~Expired(key)

\* C16: for every value of a supported type (string, number, bool, list, map)
\* and every key, set(k, v) followed by get(k), with no write of k in between
\* and no expiry, returns a value equal to v and of the same type, whatever k
\* held before.
C16_RoundTrip ==
  [][\A k \in MKeys, d \in MDefaults :
       (Readable(k) /\ MemGet(k, d)) =>
          (mlast'.done /\ mlast'.ret = given[k].value)]_vars

\* The last n rows of the conversations table, oldest first.
LastEntries(n) ==
  SubSeq(conversations, Len(conversations) - Min(n, Len(conversations)) + 1,
         Len(conversations))

\* C17: for any sequence of addConversation calls and any limit n,
\* getRecentConversations(n) returns exactly the last min(n, total) entries,
\* oldest first, also when several entries carry the same timestamp.
C17_RecentConversations ==
  [][\A n \in MLimits :
       (connection /\ GetRecentConversations(n)) =>
          mlast'.ret = PyList(LastEntries(n))]_vars

\* The text contains the query, whatever the case of the letters.
Mentions(text, query) == Contains(Lower(text), Lower(query))

FactsAbout(query) ==
  {i \in DOMAIN facts :
     Mentions(facts[i].fact, query) \/ Mentions(facts[i].category, query)}
\* The facts about the query that none of the others precedes in the order of
\* get_facts: confidence descending, then creation time descending.
FirstFactsAbout(query) ==
  {i \in FactsAbout(query) :
     \A j \in FactsAbout(query) : ~FactBefore(facts[j], facts[i])}
RowsAbout(query) ==
  {i \in DOMAIN memory_table :
     Mentions(memory_table[i].key, query) \/ Mentions(memory_table[i].value, query)}
KeyValueText(row) == PyStr(row.key \o <<":", " ">> \o row.value)

\* What C18 says recall(query) returns, given the tables.
RecallAsClaimed(query, ret) ==
  IF FactsAbout(query) # {}
  THEN \E i \in FirstFactsAbout(query) : ret = PyStr(facts[i].fact)
  ELSE IF RowsAbout(query) # {}
       THEN \E i \in RowsAbout(query) : ret = KeyValueText(memory_table[i])
       ELSE ret = PyNone

\* C18: recall(query) prefers facts over the key/value table: when a fact's
\* text or category contains the query (case-insensitively) it returns the text
\* of the first such fact in get_facts order; otherwise a key/value row whose
\* key or value contains the query, as "key: value"; otherwise nothing.
C18_RecallPrefersFacts ==
  [][\A q \in MQueries :
       (connection /\ Recall(q)) => RecallAsClaimed(q, mlast'.ret)]_vars

\* C19: a key/value entry past its expiry is invisible to every reader: get
\* does not return its value, exists does not report it, recall does not
\* return its row, after any sequence of set, delete, cleanup and passage of
\* time.
C19_ExpiredInvisible ==
  [][\A k \in MKeys :
       (connection /\ Expired(k)) =>
          /\ \A d \in MDefaults :
               (MemGet(k, d) /\ mlast'.done) => mlast'.ret = d
          /\ (MemExists(k) /\ mlast'.done) => mlast'.ret = PyBool(FALSE)
          /\ \A q \in MQueries :
               Recall(q) => mlast'.ret # KeyValueText(RowOf(memory_table, k))]_vars

\* The call just made returned, without an error, and no table changed.
ReturnedQuietly ==
  /\ mlast'.done
  /\ ~mlast'.raised
  /\ UNCHANGED StoredData

\* What each operation does on a store that is not open.
UnavailableStore ==
  /\ \A k \in MKeys, v \in StoreValues, t \in MTtls :
       MemSet(k, v, t) => (ReturnedQuietly /\ mlast'.ret = PyNone)
  /\ \A k \in MKeys, d \in MDefaults :
       MemGet(k, d) => (ReturnedQuietly /\ mlast'.ret = d)
  /\ \A k \in MKeys :
       /\ MemDelete(k) => (ReturnedQuietly /\ mlast'.ret = PyNone)
       /\ MemExists(k) => (ReturnedQuietly /\ mlast'.ret = PyBool(FALSE))
  /\ \A r \in MRoles, c \in MContents :
       AddConversation(r, c) => (ReturnedQuietly /\ mlast'.ret = PyNone)
  /\ \A n \in MLimits :
       GetRecentConversations(n) => (ReturnedQuietly /\ mlast'.ret = PyList(<<>>))
  /\ \A c \in MCategories, f \in MFacts, x \in MConfidences :
       LearnFact(c, f, x) => (ReturnedQuietly /\ mlast'.ret = PyNone)
  /\ \A c \in {Null} \cup {Some(x) : x \in MCategories} :
       GetFacts(c) => (ReturnedQuietly /\ mlast'.ret = PyList(<<>>))
  /\ \A q \in MQueries :
       Recall(q) => (ReturnedQuietly /\ mlast'.ret = PyNone)
  /\ MemCleanup => (ReturnedQuietly /\ mlast'.ret = PyNone)
  /\ MemShutdown => (ReturnedQuietly /\ mlast'.ret = PyNone /\ ~connection')

\* C20: while the store is unavailable (its connection failed to open, or
\* shutdown closed it) every operation returns its default or empty result or
\* does nothing, raises no exception and leaves the stored data unchanged.
C20_UnavailableStoreIsInert == [][~connection => UnavailableStore]_vars

\* A get answered with its default by a store that shutdown closed over a
\* row of that key.
C20_Witness ==
  /\ ~connection
  /\ mlast.op = "get"
  /\ mlast.done
  /\ mlast.ret = mlast.args[2]
  /\ HasRow(memory_table, mlast.args[1])

\* The rows of the memory table that are not past their expiry on the clock
\* of set and get.
UnexpiredRows ==
  SelectSeq(memory_table, LAMBDA r : ~PastExpiry(r, LocalNow))

\* C21: cleanup() removes exactly the key/value rows whose expiry instant has
\* passed on the clock set records it on and get tests it on; rows with no
\* expiry or an expiry still ahead, conversation entries younger than the
\* retention window and facts are left as they are.
C21_CleanupRemovesExpired ==
  [][(connection /\ MemCleanup) =>
       /\ memory_table' = UnexpiredRows
       /\ conversations' = conversations
       /\ facts' = facts]_vars


(***************************************************************************)
(* Claims about the conversation log and the engine's speech               *)
(***************************************************************************)
\* The newest entry of the conversation log.
NewestEntry == conversations[Len(conversations)]

\* The command in hand went through the dispatcher and its response has been
\* spoken and, where the code logs it, logged.
ResponseDone == At("hc_notify")

\* C22: for every command that reaches the dispatcher, whether dispatch succeeds
\* or fails, the utterance is in the conversation log before classification and
\* the spoken response is appended after it as an assistant entry tagged with
\* the intent's action (on an engine whose store is open).
C22_ExchangeLogged ==
  /\ (At("hc_classify") /\ connection) =>
       /\ conversations # <<>>
       /\ NewestEntry = ConversationRow("user", Top.cmd, None, UtcNow)
  /\ (ResponseDone /\ connection) =>
       /\ Len(conversations) >= 2
       /\ NewestEntry = ConversationRow("assistant", Top.resp, Top.intent.action,
                                        UtcNow)

\* The dispatcher called a registered handler for the command in hand and the
\* handler raised: the result is a failure and a response was selected for it.
HandlerRaised ==
  /\ Top.intent # NoIntent
  /\ Top.resp # ""
  /\ ~Top.ok
  /\ ScanHandlers(handlers, category_handlers[Top.intent.category], 1,
                  Top.intent.action).kind = "match"

\* C23: when the dispatched handler raises, whatever the intent's action and the
\* error's description, the engine speaks exactly one utterance for that command
\* and it is an apology of the error responses.
C23_HandlerErrorApology ==
  (At("hc_finally") /\ HandlerRaised /\ "tts" \in wired) => Top.said = <<"error">>

\* The utterances the claim has spoken blocking: the announcements of start(),
\* the farewell of shutdown() and the acknowledgment of a stop command.
BlockingKinds == {"startup", "textmode", "farewell", "ack_stop"}

\* The places of the control thread inside a blocking speak.
BlockingPcs == {"st_announce_in", "st_textmode_in", "sd_speak_in"}

\* C24: the engine speaks blocking exactly the startup announcement, the
\* shutdown farewell and the stop acknowledgment, so none of them is ever put on
\* the speech queue, and every other response is enqueued, so the control thread
\* holds the synthesizer only inside one of those three.
C24_BlockingSpeech ==
  /\ \A i \in DOMAIN speech_queue : speech_queue[i].kind \notin BlockingKinds
  /\ tts_lock = "main" => \E i \in DOMAIN stack : stack[i].pc \in BlockingPcs

(***************************************************************************)
(* Claims about the classifier and the path of an utterance                *)
(***************************************************************************)
\* The text classify_intent was given, in small letters and without the blanks
\* around it.
ClassifiedText == Strip(Lower(classified.raw_text))
Classified == cpc \in {"classified", "served"}

\* C25: for every text that, in small letters and trimmed, is one of the trigger
\* phrases of the catalog, classify returns an Intent of confidence 100,
\* wherever the phrase stands in its key's list and whatever phrases share a
\* word with it.
C25_ExactPhraseFullConfidence ==
  (Classified /\ ClassifiedText \in PhraseTexts) => classified.confidence = Points(100)

\* The words of a text.
Words(text) == Range(Split(text))

\* The text has at most 2 words and at most 10 characters.
ShortText(text) == Len(Split(text)) <= 2 /\ Len(text) <= 10

\* The text is a phrase of the key, or one word that is a word of a phrase of
\* the key, or holds every word of a phrase of several words of the key.
StrictlyMatches(text, k) ==
  \E j \in DOMAIN Catalog[k].patterns :
    LET phrase == Catalog[k].patterns[j] IN
    \/ text = phrase
    \/ Len(Split(text)) = 1 /\ text \in Words(phrase)
    \/ Len(Split(phrase)) > 1 /\ Words(phrase) \subseteq Words(text)

\* C26: for an input of at most 2 words and at most 10 characters the score of
\* every key is 100, 95 or 0, it never comes from the fuzzy or the substring
\* rule, and it is 0 unless the text is a trigger phrase of the key, one word of
\* such a phrase, or holds every word of a phrase of several words.
C26_ShortInputStrict ==
  (Classified /\ ShortText(ClassifiedText)) =>
    \A k \in DOMAIN matches :
      /\ matches[k].score \in {Points(100), Points(95), 0}
      /\ matches[k].rule \notin {"fuzzy", "substring"}
      /\ matches[k].score # 0 => StrictlyMatches(ClassifiedText, k)

\* A short text of two words was scored in a build with rapidfuzz: one key got
\* 95 for holding all the words of a phrase, the keys it matches nothing of
\* got 0.
C26_Witness ==
  /\ Classified
  /\ fuzzy_available
  /\ ShortText(ClassifiedText)
  /\ Len(Split(ClassifiedText)) = 2
  /\ \E k \in DOMAIN matches : matches[k] = Match(Points(95), "all_words")
  /\ \E k \in DOMAIN matches : matches[k].score = 0

\* The recognised text of the utterance.
JarvisWhatTime == Chars("jarvis what time is it")

\* C27: "jarvis what time is it" is taken as wake word and command, only a
\* COMMAND event with the text "what time is it" is queued, that text
\* classifies as TIME_DATE/time with a confidence of 90 or more and is
\* dispatched to the time handler.
C27_WakeAndTime ==
  /\ (heard = JarvisWhatTime /\ via = "voice" /\ cpc = "queued") =>
       command_queue = <<Event("COMMAND", Chars("what time is it"))>>
  /\ (heard = JarvisWhatTime /\ via = "voice" /\ Classified) =>
       /\ classified.raw_text = Chars("what time is it")
       /\ classified.category = "TIME_DATE"
       /\ classified.action = "time"
       /\ classified.confidence >= Points(90)
  /\ (heard = JarvisWhatTime /\ via = "voice" /\ cpc = "served") =>
       /\ served.success
       /\ served.handler = "handle_time"

\* The typed text of the utterance.
RememberMeeting == Chars("remember that my meeting is at five")

\* C28: "remember that my meeting is at five" classifies as MEMORY/remember
\* with the entity content = "my meeting is at five", is dispatched to the
\* remember handler, and exactly one fact of that text is added to the store.
C28_RememberMeeting ==
  /\ (heard = RememberMeeting /\ via = "typed" /\ Classified) =>
       /\ classified.category = "MEMORY"
       /\ classified.action = "remember"
       /\ classified.entities = ("content" :> PyStr(Chars("my meeting is at five")))
  /\ (heard = RememberMeeting /\ via = "typed" /\ cpc = "served") =>
       /\ served.handler = "handle_remember"
       /\ Len(facts) = 1
       /\ facts[1].fact = Chars("my meeting is at five")

\* C29: no Intent classify returns has an entity that is the empty string:
\* when the text holds nothing after the trigger, the key is left out.
C29_NoEmptyEntity ==
  Classified =>
    \A name \in DOMAIN classified.entities :
      classified.entities[name].kind = "str" => classified.entities[name].val # <<>>

\* The text is one of the four greeting words.
IsGreetingWord(text) == \E g \in {"hi", "hello", "hey", "howdy"} : text = Chars(g)

\* C30: every input that, in small letters and trimmed, is hi, hello, hey or
\* howdy classifies as CONVERSATION/greeting with confidence 100 and no
\* entities, and no pattern is scored for it.
C30_GreetingWords ==
  (Classified /\ IsGreetingWord(ClassifiedText)) =>
    /\ classified.category = "CONVERSATION"
    /\ classified.action = "greeting"
    /\ classified.confidence = Points(100)
    /\ classified.entities = NoEntities
    /\ matches = <<>>

\* " Hello ", typed with blanks around it and a capital, has been classified.
C30_Witness ==
  /\ Classified
  /\ classified.raw_text = Chars(" Hello ")
  /\ classified.action = "greeting"

(***************************************************************************)
(* Claims about the control loop, start and shutdown                       *)
(***************************************************************************)
\* The frame of start(), which runs the loops.
LoopFrame == stack[2]
InMainLoop == Len(stack) >= 2 /\ LoopFrame.pc \in {"ml_loop", "ml_get", "ml_caught"}

\* The control thread takes a step of the frame on top, which stays on top.
LoopStep == stack' # stack /\ Len(stack') = Len(stack)

\* C31: the main loop survives an exception raised while it handles an event:
\* its except clause leaves the running flag, the engine state and the event
\* queue as they are, starts no shutdown and takes the loop back to its head;
\* and a loop that has caught an error, with no shutdown begun, is running.
C31_LoopSurvives ==
  /\ [][(At("ml_caught") /\ LoopStep)
        => /\ Top'.pc = "ml_loop"
           /\ running' = running
           /\ state' = state
           /\ sdTrace' = sdTrace
           /\ command_queue' = command_queue]_vars
  /\ []((InMainLoop /\ LoopFrame.err /\ sdTrace = <<>>)
        => (running /\ state \notin {"STOPPING", "STOPPED"}))

\* An event is being handled by a loop that caught an error before it.
C31_Witness ==
  /\ Len(stack) = 3
  /\ LoopFrame.pc = "ml_loop"
  /\ LoopFrame.err
  /\ At("hc_begin")
  /\ running

\* A step that takes events off the event queue, other than the clear_queue
\* of stt.shutdown().
EventTaken ==
  /\ command_queue' # command_queue
  /\ Len(command_queue') <= Len(command_queue)
  /\ ~At("sd_stt")

\* The step hands the oldest event, and only that one, to its handler: a wake
\* event is greeted, a command gets its _handle_command frame.
OldestHandled ==
  /\ command_queue # <<>>
  /\ command_queue' = Tail(command_queue)
  /\ IF Head(command_queue)[1] = "WAKE"
     THEN /\ state' = "LISTENING"
          /\ Len(speech_queue') = Len(speech_queue) + 1
          /\ speech_queue'[Len(speech_queue')].kind = "greeting"
     ELSE Top' = Frame("hc_begin", Head(command_queue)[2])

\* C32: the main loop reads the event queue only between two events (no
\* handler frame is open), takes one event per read, the oldest one, and hands
\* it to its handler; and with the control thread running on, the queue is
\* empty again and again unless the engine stops running.
C32_OneEventInOrder ==
  /\ [][EventTaken => (Len(stack) = 2 /\ At("ml_get") /\ OldestHandled)]_vars
  /\ []<>(command_queue = <<>> \/ ~running)

\* A command is taken while a wake event queued after it stays queued.
C32_Witness ==
  /\ Len(stack) = 3
  /\ LoopFrame.pc = "ml_loop"
  /\ At("hc_begin")
  /\ command_queue = <<(<<"WAKE", "">>)>>
  /\ running

(***************************************************************************)
(* Claims about the speech output                                          *)
(***************************************************************************)
\* The utterances are spoken in the order of their speak() calls: the ids are
\* given out in call order.
SpokenInCallOrder ==
  \A i, j \in DOMAIN spoken : i < j => spoken[i].id < spoken[j].id

\* The synthesizer is used by one thread at a time.
OneSpeaker ==
  (wpc = "speaking") => (\A i \in DOMAIN stack : stack[i].pc \notin BlockingPcs)

\* C33: speech output is exclusive and first in, first out: no two threads
\* speak at once, and the utterances are spoken in the order in which speak()
\* was called, blocking or not.
C33_SpeechFifo == OneSpeaker /\ SpokenInCallOrder

(***************************************************************************)
(* Claims about the routing of the catalog                                 *)
(***************************************************************************)
\* The category and the action classify_intent derives from a catalog key.
KeyIntent(k) ==
  LET parts == SplitKey(IntentPatterns[k].key)
  IN [category |-> get_category(parts[1]), action |-> parts[2]]

\* The loop of dispatch finds a registered handler of the category.
Routed(intent) ==
  ScanHandlers(handlers, category_handlers[intent.category], 1, intent.action).kind
    = "match"

\* C34: with the skill modules loaded, the category and action of every
\* catalog key other than the stop key are matched by a registered handler of
\* that category, and so is every intent the classifier derives from a key.
C34_CatalogRoutable ==
  /\ \A k \in DOMAIN IntentPatterns :
       KeyIntent(k).action = "stop" \/ Routed(KeyIntent(k))
  /\ (cpc \in {"classified", "served"} /\ classified.category # "UNKNOWN"
      /\ classified.action # "stop")
     => Routed(classified)

\* An intent of a catalog key has been dispatched to the handler registered
\* for it.
C34_Witness ==
  /\ cpc = "served"
  /\ classified.category = "TIME_DATE"
  /\ classified.action = "time"
  /\ served.handler = "handle_time"

\* C35: start() moves the engine to RUNNING only from STARTING: its first step
\* on an engine in any other state (never initialized, initialization failed,
\* already running) leaves the running flag and the state as they are.
C35_StartOnlyFromStarting ==
  [][(At("st_begin") /\ stack' # stack /\ state # "STARTING")
     => (running' = running /\ state' = state)]_vars

(***************************************************************************)
(* Claims about the registry, second part                                  *)
(***************************************************************************)
\* C36: dispatch is total: after any sequence of register, unregister and
\* set_fallback calls a dispatch returns an outcome record with a success
\* flag and raises nothing.
C36_DispatchTotal ==
  Dispatched => (~last.out.raised /\ last.out.success \in BOOLEAN)

(***************************************************************************)
(* Claims about shutdown and the loops                                     *)
(***************************************************************************)
\* shutdown() passes its test and begins the sequence.
SequenceBegins == At("sd_set") /\ stack' # stack /\ state' = "STOPPING"

\* C37: the shutdown sequence is executed at most once: it never begins on an
\* engine on which a shutdown has already completed, also when a termination
\* signal ran the shutdown while a loop was active.
C37_ShutdownOnce == [][SequenceBegins => ~ShutdownComplete]_vars

\* The places of _handle_command after its first statement.
CommandPcs ==
  {"hc_user_in", "hc_classify", "hc_stop", "hc_stop_ack", "hc_dispatch", "hc_speak",
   "hc_asst_in", "hc_notify", "hc_except", "hc_finally"}

\* The control thread goes on with the command that was being handled when
\* the shutdown completed.
CallResumes ==
  /\ ShutdownComplete
  /\ stack' # stack
  /\ Top.pc \in CommandPcs

\* C38: STOPPED is stable: once a shutdown has completed, the command it
\* interrupted leaves the state STOPPED, dispatches no handler, submits nothing
\* to the speech output and writes nothing to the store.
C38_StoppedStable ==
  [][CallResumes => /\ state' = "STOPPED"
                    /\ ninvoked' = ninvoked
                    /\ nutt' = nutt
                    /\ conversations' = conversations]_vars

(***************************************************************************)
(* Claims about the store's lock                                           *)
(***************************************************************************)
\* C39: the store's lock never deadlocks: every store operation that was
\* called has returned or raised, and the lock it took is free again.
C39_LockNeverDeadlocks == (mlast.done \/ mlast.raised) /\ mem_lock = "free"

(***************************************************************************)
(* Claims about the order of the speech events                             *)
(***************************************************************************)
\* C40: the events enter the event queue in the order in which their
\* utterances were captured (events of the same text cannot be told apart), so
\* that two commands spoken one after the other are handled in spoken order.
C40_CaptureOrder ==
  \A i, j \in DOMAIN queued :
    (i < j /\ captured[queued[i]].text # captured[queued[j]].text)
      => queued[i] < queued[j]

=============================================================================
